---- MODULE Spec2Model ----
(***************************************************************************)
(* The DXT buffer manager of darshan-runtime/lib/darshan-dxt.c as a state  *)
(* machine.  Every trace entry point (dxt_posix_write, dxt_posix_read,     *)
(* dxt_mpiio_write, dxt_mpiio_read) is one call of a thread; a call is cut *)
(* into the steps between which another thread can run: the entry checks,  *)
(* the lazy runtime initialisation, the hash lookup, the creation of a     *)
(* file record (lock, budget check, debit, unlock, field initialisation),  *)
(* the growth of a trace buffer (lock, clamp, debit, unlock, realloc) and  *)
(* the append.  Spec runs one thread, SpecMT runs two.                     *)
(*                                                                         *)
(* Sizes are scaled: the 4 MiB budget, the 64-segment initial buffer and   *)
(* the two sizeof values are small numbers, so that the budget runs out    *)
(* within a handful of calls.  Every formula is stated over the names, not *)
(* over the numbers.                                                       *)
(*                                                                         *)
(* The second half is the aggregation of darshan-util/darshan-parser.c:    *)
(* main()'s loop over the modules of a log and over each module's records, *)
(* the folds *_accum_file and *_accum_perf, the finalisation *_calc_file   *)
(* and calc_perf, and the reset between modules.  SpecParser runs it on    *)
(* every log of up to MaxRecords records.                                  *)
(***************************************************************************)
EXTENDS Integers, Sequences, FiniteSets, TLC

\* ------------------------------------------------------------ sizes
\* #define DXT_IO_TRACE_MEM_MAX (4 * 1024 * 1024), scaled
DXT_IO_TRACE_MEM_MAX == 12
\* #define IO_TRACE_BUF_SIZE 64, scaled
IO_TRACE_BUF_SIZE == 1
\* sizeof(segment_info), scaled
SizeofSegmentInfo == 2
\* sizeof(struct dxt_file_record), scaled
SizeofDxtFileRecord == 3

\* ------------------------------------------------------------ bounds
\* record ids the application traces
MaxRecId == 2
\* offsets and lengths the application passes
MaxArg == 1

RecIds == 1..MaxRecId
Args == 0..MaxArg
Modules == {"POSIX", "MPIIO"}
Dirs == {"write", "read"}
Threads == {1, 2}
NULL == 0
\* a module's runtime pointer before dxt_*_runtime_initialize and after cleanup
NullRuntime == [allocated |-> FALSE, rec_id_hash |-> << >>, file_rec_count |-> 0]
\* *dxt_buf, *dxt_buf_sz before the module's shutdown has returned
NoOutput == [returned |-> FALSE, buf |-> << >>, sz |-> 0]
\* the rank darshan-core hands to a module when it registers
CoreRank == 0

\* The arguments of a trace call: offset, length, start_time, end_time.
SegArgs ==
  { [offset |-> a, length |-> a + 1, start_time |-> a, end_time |-> a + 1] :
      a \in Args }

\* size_t is unsigned and wider than int: a negative int converts to a huge
\* value.  The model's size_t is 16 bits wide; every size in it is far below.
SizeTMod == 2 ^ 16
ToSizeT(x) == x % SizeTMod
ToInt(u) == IF u >= SizeTMod \div 2 THEN u - SizeTMod ELSE u

VARIABLES
  dxt_mem_remaining,         \* static int dxt_mem_remaining
  instrumentation_disabled,  \* static int instrumentation_disabled
  dxt_runtime,               \* dxt_posix_runtime / dxt_mpiio_runtime
  my_rank,                   \* posix_my_rank / mpiio_my_rank
  heap,                      \* every dxt_file_record_ref ever allocated, by address
  mutex_owner,               \* dxt_runtime_mutex: the thread holding it, or NULL
  mutex_count,               \* its recursion count
  dxt_buf,                   \* what shutdown handed back through *dxt_buf, *dxt_buf_sz
  pc,                        \* where each thread is in its trace call
  call,                      \* the arguments of each thread's trace call
  rec_ref,                   \* each thread's local rec_ref
  loc,                       \* each thread's locals of check_wr/rd_trace_buf
  fault,                     \* the process died on a wild or null pointer
  env,                       \* the run's surroundings, fixed at its start: the threads
                             \* the application runs, the files it traces, the
                             \* arguments it passes, whether an allocation may fail,
                             \* and whether the observer of missed calls is on
  missed,                    \* history: one trace call that returned without storing
                             \* its segment, once the observer has picked one
  granted,                   \* history: the bytes granted so far, one file record per
                             \* record added to a hash and the clamped increment of
                             \* every growth request
  short,                     \* history: how the first growth request that got less
                             \* than it asked for was answered
  last                       \* history: the name of the last step taken

\* the state of darshan-parser's main(): darshan-util/darshan-parser.c
VARIABLES
  job_nprocs,                \* job.nprocs
  mask,                      \* the options parse_args returned
  mod_idx,                   \* i, the index of the module loop
  parser_pc,                 \* where main() is
  file_hash_table,           \* the per-file hash, in insertion order
  total,                     \* hash_entry_t total
  fdata,                     \* file_data_t fdata
  pdata,                     \* perf_data_t pdata and its three per-rank vectors
  ret,                       \* ret
  empty_mods,                \* empty_mods
  printed,                   \* what the last finalised module printed
  nread,                     \* history: the records read from the log so far
  folded,                    \* history: the records folded since the last reset
  mod_outcome,               \* history: how the last module loop iteration ended
  mod_in,                    \* history: the region and flag of the module last looked at
  failed,                    \* history: an error was reported during the run
  log_env                    \* the records the log can hold

\* the name and mount resolution of darshan-parser's record loop
VARIABLES
  mnt_data_array,            \* the mount table, mount_count entries
  name_hash,                 \* the name records of the log, by record id
  lookup_id,                 \* base_rec->id of the record at hand
  lookup_pc,                 \* "ready" before the lookup, "resolved" after
  mnt_pt,                    \* mnt_pt
  fs_type                    \* fs_type

dxt_vars ==
  << dxt_mem_remaining, instrumentation_disabled, dxt_runtime, my_rank, heap,
     mutex_owner, mutex_count, dxt_buf, pc, call, rec_ref, loc, fault, env,
     missed, granted, short, last >>

parser_vars ==
  << job_nprocs, mask, mod_idx, parser_pc, file_hash_table, total, fdata, pdata,
     ret, empty_mods, printed, nread, folded, mod_outcome, mod_in, failed,
     log_env >>

mount_vars ==
  << mnt_data_array, name_hash, lookup_id, lookup_pc, mnt_pt, fs_type >>

vars == << dxt_vars, parser_vars, mount_vars >>

\* ------------------------------------------------------------ parser data
\* ranks of the job: job.nprocs is drawn from 1..MaxNprocs
MaxNprocs == 2
\* record ids the log's records carry
MaxFileId == 2
\* the shapes a record's counters take, see ParserRecord
MaxShape == 2
\* records log_get_record hands out over the whole log
MaxRecords == 2

\* Modules in the order of the module loop; DARSHAN_MAX_MODS is its length.
\* HDF5 stands for the modules that are printed only, DXT_POSIX for the DXT
\* modules.
ModuleNames == << "POSIX", "MPIIO", "HDF5", "STDIO", "DXT_POSIX" >>
DARSHAN_MAX_MODS == Len(ModuleNames)
\* i == DARSHAN_POSIX_MOD || i == DARSHAN_MPIIO_MOD || i == DARSHAN_STDIO_MOD
Aggregating(m) == ModuleNames[m] \in {"POSIX", "MPIIO", "STDIO"}
\* i == DXT_POSIX_MOD || i == DXT_MPIIO_MOD
IsDxtModule(m) == ModuleNames[m] \in {"DXT_POSIX", "DXT_MPIIO"}

\* The options darshan-parser is run with: every block and --show-incomplete,
\* or the three derived blocks alone.
Masks ==
  { {"BASE", "TOTAL", "PERF", "FILE", "SHOW_INCOMPLETE"},
    {"TOTAL", "PERF", "FILE"} }

\* The ranks a record of the log can carry: -1 for a shared record, the ranks
\* of the job, and ranks beyond job.nprocs in a malformed log.
Ranks == (-1)..MaxNprocs
FileIds == 1..MaxFileId

\* A POSIX, MPI-IO or STDIO record as the aggregation reads it: base_rec.id,
\* base_rec.rank, the read and write call counts, the bytes moved, and the
\* four timers.  Shape 1 is a read whose slowest-rank time equals its
\* meta+read+write time; from shape 2 on it is a write with a metadata
\* second, whose slowest-rank time is below its meta+read+write time; shape
\* 0 is a file that was opened and neither read nor written.
ParserRecord(id, rank, k) ==
  [ id |-> id, rank |-> rank,
    READS |-> IF k = 1 THEN 1 ELSE 0,
    WRITES |-> IF k >= 2 THEN 1 ELSE 0,
    BYTES_READ |-> IF k = 1 THEN k ELSE 0,
    BYTES_WRITTEN |-> IF k = 1 THEN 0 ELSE k,
    F_META_TIME |-> IF k = 1 THEN 0 ELSE 1,
    F_READ_TIME |-> IF k = 1 THEN k ELSE 0,
    F_WRITE_TIME |-> IF k = 1 THEN 0 ELSE k,
    F_SLOWEST_RANK_TIME |-> k ]
LogRecords(ids, ranks, shapes) ==
  { ParserRecord(id, rank, k) : id \in ids, rank \in ranks, k \in shapes }
ParserRecords == LogRecords(FileIds, Ranks, 1..MaxShape)

\* fcounters[F_META_TIME] + fcounters[F_READ_TIME] + fcounters[F_WRITE_TIME]
IoTime(r) == r.F_META_TIME + r.F_READ_TIME + r.F_WRITE_TIME

\* rec_dat == NULL
NoRecDat ==
  [ allocated |-> FALSE, READS |-> 0, WRITES |-> 0, BYTES_READ |-> 0,
    BYTES_WRITTEN |-> 0 ]

\* the FILETYPE_* bits of hash_entry_t.type, as a set of their names
FILETYPE_SHARED == "SHARED"
FILETYPE_UNIQUE == "UNIQUE"
FILETYPE_PARTSHARED == "PARTSHARED"

\* a hash_entry_t after memset(.., 0, ..): main's init of hfile, and total
NewHashEntry(id) ==
  [ rec_id |-> id, type |-> {}, procs |-> 0, rec_dat |-> NoRecDat,
    cumul_io_total_time |-> 0, slowest_io_total_time |-> 0 ]

\* a file_data_t after memset(.., 0, ..)
ZeroFileData ==
  [ total |-> 0, total_size |-> 0, total_max |-> 0,
    read_only |-> 0, read_only_size |-> 0, read_only_max |-> 0,
    write_only |-> 0, write_only_size |-> 0, write_only_max |-> 0,
    read_write |-> 0, read_write_size |-> 0, read_write_max |-> 0,
    unique |-> 0, unique_size |-> 0, unique_max |-> 0,
    shared |-> 0, shared_size |-> 0, shared_max |-> 0 ]

\* A quotient of doubles is kept as its numerator and denominator; 0.0 is 0/1.
Quotient(n, d) == [num |-> n, den |-> d]

\* a double vector of nprocs zeros
ZeroVector(nprocs) == [r \in 0..(nprocs - 1) |-> 0]

\* a perf_data_t after memset(.., 0, ..), with its three per-rank vectors of
\* nprocs doubles zeroed
ZeroPerfData(nprocs) ==
  [ total_bytes |-> 0,
    slowest_rank_io_total_time |-> 0,
    slowest_rank_rw_only_time |-> 0,
    slowest_rank_meta_only_time |-> 0,
    slowest_rank_rank |-> 0,
    shared_io_total_time_by_slowest |-> 0,
    agg_perf_by_slowest |-> Quotient(0, 1),
    agg_time_by_slowest |-> 0,
    rank_cumul_io_total_time |-> ZeroVector(nprocs),
    rank_cumul_rw_only_time |-> ZeroVector(nprocs),
    rank_cumul_md_only_time |-> ZeroVector(nprocs) ]

\* no hash entry: file_hash_table == NULL
EmptyHash == [id \in {} |-> NewHashEntry(id)]

\* main() before the module loop, for a job of n ranks and the options o: the
\* three accumulators are zeroed, the per-rank vectors allocated and zeroed.
ParserInitFor(n, o, at) ==
  /\ job_nprocs = n
  /\ mask = o
  /\ mod_idx = 1
  /\ parser_pc = at
  /\ file_hash_table = EmptyHash
  /\ total = NewHashEntry(0)
  /\ fdata = ZeroFileData
  /\ pdata = ZeroPerfData(n)
  /\ ret = 0
  /\ empty_mods = 0
  /\ printed = {}
  /\ nread = 0
  /\ folded = << >>
  /\ mod_outcome = "none"
  /\ mod_in = [len |-> 0, partial |-> FALSE, data |-> FALSE, nrec |-> 0]
  /\ failed = FALSE

\* darshan-parser is not run
ParserOff == ParserInitFor(1, {}, "off") /\ log_env = [records |-> {}]

\* A path is the sequence of its characters.
MaxMounts == 2
MaxMountLen == 2
MaxPathLen == 3
PathChars == {"/", "a"}
PathsUpTo(n) == UNION { [1..k -> PathChars] : k \in 1..n }
FsTypes == {"nfs", "lustre"}

\* char *mnt_pt = NULL; char *fs_type = NULL;
NullPath == << >>
NullType == ""
\* the string "UNKNOWN" as a path, and as a file system type
UnknownPath == << "U", "N", "K", "N", "O", "W", "N" >>
UnknownType == "UNKNOWN"

\* the mount tables darshan_log_get_mounts can deliver: mount_count entries
\* of struct darshan_mnt_info, in the order of the log
MountEntries == [mnt_path : PathsUpTo(MaxMountLen), mnt_type : FsTypes]
MountTables == UNION { [1..k -> MountEntries] : k \in 0..MaxMounts }

\* the name hashes darshan_log_get_namehash can deliver: a name for some of
\* the record ids
NameHashes ==
  UNION { [ids -> PathsUpTo(MaxPathLen)] : ids \in SUBSET FileIds }

\* no record is being resolved
MountOff ==
  /\ mnt_data_array = << >>
  /\ name_hash = << >>
  /\ lookup_id = 0
  /\ lookup_pc = "off"
  /\ mnt_pt = NullPath
  /\ fs_type = NullType

NoCall == [mod |-> "POSIX", dir |-> "write", rec_id |-> 0,
           seg |-> [offset |-> 0, length |-> 0, start_time |-> 0, end_time |-> 0]]
NoLoc == [count |-> 0, available_buf |-> 0, count_inc |-> 0]

Key(m, id, d) == << m, id, d >>
\* no missed call picked yet
NoMiss == [key |-> Key("", 0, ""), why |-> "none"]

\* the DXT state before the first trace call, in the surroundings e
DxtInitFor(e) ==
  /\ dxt_mem_remaining = DXT_IO_TRACE_MEM_MAX
  /\ instrumentation_disabled = FALSE
  /\ dxt_runtime = [m \in Modules |-> NullRuntime]
  /\ my_rank = [m \in Modules |-> -1]
  /\ heap = << >>
  /\ mutex_owner = NULL
  /\ mutex_count = 0
  /\ dxt_buf = [m \in Modules |-> NoOutput]
  /\ pc = [t \in Threads |-> "idle"]
  /\ call = [t \in Threads |-> NoCall]
  /\ rec_ref = [t \in Threads |-> NULL]
  /\ loc = [t \in Threads |-> NoLoc]
  /\ fault = FALSE
  /\ env = e
  /\ missed = NoMiss
  /\ granted = 0
  /\ short = "none"
  /\ last = "none"

InitFor(e) == ParserOff /\ MountOff /\ DxtInitFor(e)

\* one application thread tracing two POSIX files and one MPI-IO file, with
\* every argument; allocations may fail
Init ==
  InitFor([threads |-> 1,
           files |-> {<< "POSIX", 1 >>, << "POSIX", 2 >>, << "MPIIO", 1 >>},
           segs |-> SegArgs, may_fail |-> TRUE, observe |-> FALSE])
\* one application thread tracing one POSIX file and one MPI-IO file, with
\* every argument and the observer of missed calls on; allocations may fail
InitObs ==
  InitFor([threads |-> 1,
           files |-> {<< "POSIX", 1 >>, << "MPIIO", 1 >>},
           segs |-> SegArgs, may_fail |-> TRUE, observe |-> TRUE])
\* two application threads tracing one POSIX file and one MPI-IO file, with one
\* argument; allocations succeed
InitMT ==
  InitFor([threads |-> 2,
           files |-> {<< "POSIX", 1 >>, << "MPIIO", 1 >>},
           segs |-> {s \in SegArgs : s.offset = 0},
           may_fail |-> FALSE, observe |-> FALSE])

\* two application threads tracing two POSIX files, with one argument;
\* allocations may fail
InitRace ==
  InitFor([threads |-> 2,
           files |-> {<< "POSIX", 1 >>, << "POSIX", 2 >>},
           segs |-> {s \in SegArgs : s.offset = 0},
           may_fail |-> TRUE, observe |-> FALSE])

\* ------------------------------------------------------------ helpers
Other(d) == IF d = "write" THEN "read" ELSE "write"

\* A dxt_file_record_ref fresh from malloc + memset, keyed by rec_id in the
\* module's hash; its file record is not linked yet (rec_ref->file_rec is 0).
NewRecRef(m, id) ==
  [ mod |-> m, id |-> id, freed |-> FALSE, linked |-> FALSE,
    base_rec |-> [id |-> 0, rank |-> 0],
    count |-> [d \in Dirs |-> 0],
    traces |-> [d \in Dirs |-> << >>],
    available_buf |-> [d \in Dirs |-> 0] ]

\* What is left of a record after dxt_free_trace_buffers and
\* darshan_clear_record_refs(.., 1).
FreedRecRef(r) ==
  [ NewRecRef(r.mod, r.id) EXCEPT !.freed = TRUE ]

\* darshan_lookup_record_ref: the address in the hash whose key is id, or NULL.
LookupRecordRef(hash, id) ==
  IF \E i \in 1..Len(hash) : heap[hash[i]].id = id
    THEN hash[CHOOSE i \in 1..Len(hash) : heap[hash[i]].id = id]
    ELSE NULL

\* a lock that never waits
CanLock_Always(t) == TRUE
\* DXT_LOCK() by thread t: a recursive mutex, free or already held by t.
CanLock(t) == mutex_owner \in {NULL, t}
DXT_LOCK(t) ==
  /\ CanLock(t)
  /\ mutex_owner' = t
  /\ mutex_count' = mutex_count + 1
\* an unlock that leaves the mutex with its owner
DXT_UNLOCK_Keeps(t) == UNCHANGED << mutex_owner, mutex_count >>
DXT_UNLOCK(t) ==
  /\ mutex_count' = mutex_count - 1
  /\ mutex_owner' = IF mutex_count = 1 THEN NULL ELSE mutex_owner

\* a debit of one byte more
Debit_Over(rem, n) == ToInt((ToSizeT(rem) + SizeTMod - n - 1) % SizeTMod)
\* dxt_mem_remaining -= n, with n a size_t: computed unsigned, stored in an int.
Debit(rem, n) == ToInt((ToSizeT(rem) + SizeTMod - n) % SizeTMod)

\* a growth that is never clamped
ClampInc_NoClamp(inc, rem) == inc
\* a clamp that keeps one segment back
ClampInc_Under(inc, rem) ==
  IF inc * SizeofSegmentInfo > ToSizeT(rem)
    THEN IF ToSizeT(rem) \div SizeofSegmentInfo > 0
           THEN ToSizeT(rem) \div SizeofSegmentInfo - 1 ELSE 0
    ELSE inc
\* if((inc * sizeof(segment_info)) > dxt_mem_remaining)
\*     inc = dxt_mem_remaining / sizeof(segment_info);
ClampInc(inc, rem) ==
  IF inc * SizeofSegmentInfo > ToSizeT(rem)
    THEN ToSizeT(rem) \div SizeofSegmentInfo
    ELSE inc

\* a growth that always asks for the initial size
CountInc_Fixed(available_buf) == IO_TRACE_BUF_SIZE
\* the increment check_wr/rd_trace_buf asks for
CountInc(available_buf) ==
  IF available_buf = 0 THEN IO_TRACE_BUF_SIZE ELSE available_buf

\* a creation that is never refused
NoRoomForRecord_Never(rem) == FALSE
\* if(dxt_mem_remaining < sizeof(struct dxt_file_record)): no room for a record
NoRoomForRecord(rem) == ToSizeT(rem) < SizeofDxtFileRecord

\* history: a call for module m, record id and direction d returns without
\* having stored its segment; why names the return it took.  The observer
\* keeps the first call it picks and may pick any.
MissOf(m, id, d, why) ==
  missed' \in IF missed = NoMiss /\ env.observe
               THEN {NoMiss, [key |-> Key(m, id, d), why |-> why]}
               ELSE {missed}
Miss(t, why) == MissOf(call[t].mod, call[t].rec_id, call[t].dir, why)

\* a flag that only stops the module that was shut down
InstrumentationDisabled_PerModule(m) ==
  instrumentation_disabled /\ ~dxt_runtime[m].allocated
\* if(instrumentation_disabled) return;
InstrumentationDisabled(m) == instrumentation_disabled

\* an append that never backs out
BackOut_Never(r, d) == FALSE
\* if(file_rec->write_count == rec_ref->write_available_buf) return;
\* (and the same for reads): no more memory for i/o segments, back out
BackOut(r, d) == r.count[d] = r.available_buf[d]

\* a cleanup that credits the freed file records back
AfterCleanup_Credit(rem, hash) == rem + Len(hash) * SizeofDxtFileRecord
\* dxt_mem_remaining across dxt_*_cleanup_runtime: the buffers and records of
\* the hash are freed and nothing is credited back.
AfterCleanup(rem, hash) == rem

Return(t) ==
  /\ pc' = [pc EXCEPT ![t] = "idle"]
  /\ call' = [call EXCEPT ![t] = NoCall]
  /\ rec_ref' = [rec_ref EXCEPT ![t] = NULL]
  /\ loc' = [loc EXCEPT ![t] = NoLoc]

Goto(t, label) == pc' = [pc EXCEPT ![t] = label]

Running(t) == t \in 1..env.threads /\ ~fault

\* The outcomes of an allocation (or of the registration with darshan-core):
\* TRUE is success.
Outcomes == IF env.may_fail THEN {TRUE, FALSE} ELSE {TRUE}

\* ------------------------------------------------------------ trace calls
\* Entry of dxt_posix_write / dxt_posix_read / dxt_mpiio_write / dxt_mpiio_read.
\* Callers serialise the traces of one file: no other thread is inside a call
\* for the same module and record id.  The MPI-IO entry points take no offset.
TraceCall(t) ==
  /\ Running(t)
  /\ UNCHANGED parser_vars
  /\ UNCHANGED mount_vars
  /\ pc[t] = "idle"
  /\ \E m \in Modules, d \in Dirs, id \in RecIds, seg \in env.segs :
       /\ << m, id >> \in env.files
       /\ m = "MPIIO" => seg.offset = 0
       /\ \A u \in Threads \ {t} :
            pc[u] = "idle" \/ call[u].mod # m \/ call[u].rec_id # id
       /\ IF InstrumentationDisabled(m)
            THEN /\ Return(t)
                 /\ MissOf(m, id, d, "disabled")
                 /\ last' = "disabled"
            ELSE /\ call' = [call EXCEPT ![t] =
                               [mod |-> m, dir |-> d, rec_id |-> id, seg |-> seg]]
                 /\ Goto(t, IF ~dxt_runtime[m].allocated
                              THEN "runtime_initialize" ELSE "lookup")
                 /\ last' = "enter"
                 /\ UNCHANGED << rec_ref, loc, missed >>
  /\ UNCHANGED << dxt_mem_remaining, instrumentation_disabled, dxt_runtime,
                  my_rank, heap, mutex_owner, mutex_count, dxt_buf, fault,
                  env, granted, short >>

\* dxt_posix_runtime_initialize / dxt_mpiio_runtime_initialize, and the
\* caller's if(!dxt_*_runtime) return.  Registration or malloc may fail.
RuntimeInitialize(t) ==
  /\ Running(t)
  /\ UNCHANGED parser_vars
  /\ UNCHANGED mount_vars
  /\ pc[t] = "runtime_initialize"
  /\ \E ok \in Outcomes :
       LET m == call[t].mod
           rt == IF ok THEN [NullRuntime EXCEPT !.allocated = TRUE]
                       ELSE dxt_runtime[m]
       IN  /\ my_rank' = [my_rank EXCEPT ![m] = CoreRank]
           /\ dxt_runtime' = [dxt_runtime EXCEPT ![m] = rt]
           /\ IF ~rt.allocated
                THEN /\ Return(t)
                     /\ Miss(t, "init_failed")
                     /\ last' = "init_failed"
                ELSE /\ Goto(t, "lookup")
                     /\ last' = "init"
                     /\ UNCHANGED << call, rec_ref, loc, missed >>
  /\ UNCHANGED << dxt_mem_remaining, instrumentation_disabled, heap, mutex_owner,
                  mutex_count, dxt_buf, fault, env, granted, short >>

\* rec_ref = darshan_lookup_record_ref(runtime->rec_id_hash, &rec_id, ..)
Lookup(t) ==
  /\ Running(t)
  /\ UNCHANGED parser_vars
  /\ UNCHANGED mount_vars
  /\ pc[t] = "lookup"
  /\ LET a == LookupRecordRef(dxt_runtime[call[t].mod].rec_id_hash, call[t].rec_id)
     IN  /\ rec_ref' = [rec_ref EXCEPT ![t] = a]
         /\ Goto(t, IF a = NULL THEN "track_lock" ELSE "check_trace_buf")
  /\ last' = "lookup"
  /\ UNCHANGED << dxt_mem_remaining, instrumentation_disabled, dxt_runtime,
                  my_rank, heap, mutex_owner, mutex_count, dxt_buf, call, loc,
                  fault, env, granted, short, missed >>

\* dxt_*_track_new_file_record: DXT_LOCK()
TrackLock(t) ==
  /\ Running(t)
  /\ UNCHANGED parser_vars
  /\ UNCHANGED mount_vars
  /\ pc[t] = "track_lock"
  /\ DXT_LOCK(t)
  /\ Goto(t, "track_check")
  /\ last' = "lock"
  /\ UNCHANGED << dxt_mem_remaining, instrumentation_disabled, dxt_runtime,
                  my_rank, heap, dxt_buf, call, rec_ref, loc, fault, env,
                  granted, short, missed >>

\* dxt_*_track_new_file_record, under the lock: the budget check, the two
\* mallocs and darshan_add_record_ref.  Each failure unlocks and returns; the
\* caller returns on a null rec_ref.  dxt_mpiio_track_new_file_record leaves
\* its return value unset when darshan_add_record_ref fails ("return;"): the
\* caller then sees null, or a wild pointer it dereferences.
TrackCheck(t) ==
  /\ Running(t)
  /\ UNCHANGED parser_vars
  /\ UNCHANGED mount_vars
  /\ pc[t] = "track_check"
  /\ LET m == call[t].mod
         id == call[t].rec_id
     IN  IF NoRoomForRecord(dxt_mem_remaining)
           THEN /\ DXT_UNLOCK(t)
                /\ Return(t)
                /\ Miss(t, "refused")
                /\ last' = "refused"
                /\ UNCHANGED << heap, dxt_runtime, fault, granted >>
           ELSE \E alloc \in {"ok", "malloc_failed", "add_failed", "add_failed_wild"} :
                  /\ alloc = "add_failed_wild" => m = "MPIIO"
                  /\ (alloc = "ok") \in Outcomes
                  /\ IF alloc = "ok"
                       THEN /\ heap' = Append(heap, NewRecRef(m, id))
                            /\ dxt_runtime' =
                                 [dxt_runtime EXCEPT ![m].rec_id_hash =
                                    Append(@, Len(heap) + 1)]
                            /\ rec_ref' = [rec_ref EXCEPT ![t] = Len(heap) + 1]
                            /\ Goto(t, "track_debit")
                            /\ granted' = granted + SizeofDxtFileRecord
                            /\ last' = "added"
                            /\ UNCHANGED << mutex_owner, mutex_count, call, loc, fault,
                                            missed >>
                       ELSE /\ DXT_UNLOCK(t)
                            /\ Return(t)
                            /\ Miss(t, "alloc_failed")
                            /\ fault' = (alloc = "add_failed_wild")
                            /\ last' = "alloc_failed"
                            /\ UNCHANGED << heap, dxt_runtime, granted >>
  /\ UNCHANGED << dxt_mem_remaining, instrumentation_disabled, my_rank, dxt_buf,
                  env, short >>

\* dxt_mem_remaining -= sizeof(struct dxt_file_record); DXT_UNLOCK();
TrackDebit(t) ==
  /\ Running(t)
  /\ UNCHANGED parser_vars
  /\ UNCHANGED mount_vars
  /\ pc[t] = "track_debit"
  /\ dxt_mem_remaining' = Debit(dxt_mem_remaining, SizeofDxtFileRecord)
  /\ DXT_UNLOCK(t)
  /\ Goto(t, "track_init")
  /\ last' = "record_debit"
  /\ UNCHANGED << instrumentation_disabled, dxt_runtime, my_rank, heap, dxt_buf,
                  call, rec_ref, loc, fault, env, missed, granted, short >>

\* file_rec->base_rec.id = rec_id; file_rec->base_rec.rank = *_my_rank;
\* rec_ref->file_rec = file_rec; runtime->file_rec_count++;
TrackInit(t) ==
  /\ Running(t)
  /\ UNCHANGED parser_vars
  /\ UNCHANGED mount_vars
  /\ pc[t] = "track_init"
  /\ LET m == call[t].mod
         a == rec_ref[t]
     IN  /\ heap' = [heap EXCEPT ![a].linked = TRUE,
                                 ![a].base_rec = [id |-> call[t].rec_id,
                                                  rank |-> my_rank[m]]]
         /\ dxt_runtime' = [dxt_runtime EXCEPT ![m].file_rec_count = @ + 1]
  /\ Goto(t, "check_trace_buf")
  /\ last' = "created"
  /\ UNCHANGED << dxt_mem_remaining, instrumentation_disabled, my_rank,
                  mutex_owner, mutex_count, dxt_buf, call, rec_ref, loc, fault,
                  env, granted, short, missed >>

\* check_wr_trace_buf / check_rd_trace_buf up to DXT_LOCK(): read the count and
\* the capacity, and ask for growth only when the count has reached the capacity.
CheckTraceBuf(t) ==
  /\ Running(t)
  /\ UNCHANGED parser_vars
  /\ UNCHANGED mount_vars
  /\ pc[t] = "check_trace_buf"
  /\ LET r == heap[rec_ref[t]]
         d == call[t].dir
         count == r.count[d]
         available_buf == r.available_buf[d]
     IN  IF count >= available_buf
           THEN /\ loc' = [loc EXCEPT ![t] =
                             [count |-> count, available_buf |-> available_buf,
                              count_inc |-> CountInc(available_buf)]]
                /\ Goto(t, "grow_lock")
           ELSE /\ loc' = [loc EXCEPT ![t] =
                             [count |-> count, available_buf |-> available_buf,
                              count_inc |-> 0]]
                /\ Goto(t, "append")
  /\ last' = "check"
  /\ UNCHANGED << dxt_mem_remaining, instrumentation_disabled, dxt_runtime,
                  my_rank, heap, mutex_owner, mutex_count, dxt_buf, call, rec_ref,
                  fault, env, granted, short, missed >>

\* check_*_trace_buf: DXT_LOCK()
GrowLock(t) ==
  /\ Running(t)
  /\ UNCHANGED parser_vars
  /\ UNCHANGED mount_vars
  /\ pc[t] = "grow_lock"
  /\ DXT_LOCK(t)
  /\ Goto(t, "grow_clamp")
  /\ last' = "lock"
  /\ UNCHANGED << dxt_mem_remaining, instrumentation_disabled, dxt_runtime,
                  my_rank, heap, dxt_buf, call, rec_ref, loc, fault, env,
                  granted, short, missed >>

\* check_*_trace_buf, under the lock: clamp the increment to the budget
GrowClamp(t) ==
  /\ Running(t)
  /\ UNCHANGED parser_vars
  /\ UNCHANGED mount_vars
  /\ pc[t] = "grow_clamp"
  /\ loc' = [loc EXCEPT ![t].count_inc = ClampInc(@, dxt_mem_remaining)]
  /\ Goto(t, "grow_debit")
  /\ granted' = granted + ClampInc(loc[t].count_inc, dxt_mem_remaining)
                           * SizeofSegmentInfo
  /\ short' = IF short # "none"
                 \/ ClampInc(loc[t].count_inc, dxt_mem_remaining) = loc[t].count_inc
               THEN short
               ELSE IF ClampInc(loc[t].count_inc, dxt_mem_remaining) = 0
                      THEN "zero" ELSE "partial"
  /\ last' = "clamp"
  /\ UNCHANGED << dxt_mem_remaining, instrumentation_disabled, dxt_runtime,
                  my_rank, heap, mutex_owner, mutex_count, dxt_buf, call, rec_ref,
                  fault, env, missed >>

\* dxt_mem_remaining -= (count_inc * sizeof(segment_info)); DXT_UNLOCK();
GrowDebit(t) ==
  /\ Running(t)
  /\ UNCHANGED parser_vars
  /\ UNCHANGED mount_vars
  /\ pc[t] = "grow_debit"
  /\ dxt_mem_remaining' =
       Debit(dxt_mem_remaining, loc[t].count_inc * SizeofSegmentInfo)
  /\ DXT_UNLOCK(t)
  /\ Goto(t, "grow_realloc")
  /\ last' = "grow_debit"
  /\ UNCHANGED << instrumentation_disabled, dxt_runtime, my_rank, heap, dxt_buf,
                  call, rec_ref, loc, fault, env, missed, granted, short >>

\* if(count_inc > 0) { available_buf += count_inc; traces = realloc(..);
\*                     rec_ref->*_available_buf = available_buf; }
\* A realloc that fails leaves a null traces pointer under a raised capacity:
\* the append of this same call then writes through it.
GrowRealloc(t) ==
  /\ Running(t)
  /\ UNCHANGED parser_vars
  /\ UNCHANGED mount_vars
  /\ pc[t] = "grow_realloc"
  /\ LET a == rec_ref[t]
         d == call[t].dir
         inc == loc[t].count_inc
     IN  IF inc > 0
           THEN \E ok \in Outcomes :
                  /\ loc' = [loc EXCEPT ![t].available_buf = @ + inc]
                  /\ heap' = [heap EXCEPT ![a].available_buf[d] =
                                            loc[t].available_buf + inc]
                  /\ fault' = ~ok
           ELSE UNCHANGED << loc, heap, fault >>
  /\ Goto(t, "append")
  /\ last' = "grown"
  /\ UNCHANGED << dxt_mem_remaining, instrumentation_disabled, dxt_runtime,
                  my_rank, mutex_owner, mutex_count, dxt_buf, call, rec_ref,
                  env, granted, short, missed >>

\* The segment a trace call stores.  dxt_mpiio_write / dxt_mpiio_read take no
\* offset and leave .offset as realloc returned it: g is whatever the memory
\* held.
Stored(c, g) ==
  [ offset |-> IF c.mod = "MPIIO" THEN g ELSE c.seg.offset,
    length |-> c.seg.length,
    start_time |-> c.seg.start_time,
    end_time |-> c.seg.end_time ]

\* a store at the front of the buffer
StoreAt_Front(traces, count, seg) == << seg >> \o traces
\* traces[count] = segment
StoreAt(traces, count, seg) ==
  IF count < Len(traces) THEN [traces EXCEPT ![count + 1] = seg]
                         ELSE Append(traces, seg)

\* if(file_rec->count == rec_ref->available_buf) return;
\* traces[count] = {offset, length, start_time, end_time}; count += 1;
AppendSegment(t) ==
  /\ Running(t)
  /\ UNCHANGED parser_vars
  /\ UNCHANGED mount_vars
  /\ pc[t] = "append"
  /\ LET a == rec_ref[t]
         d == call[t].dir
         r == heap[a]
     IN  IF BackOut(r, d)
           THEN /\ last' = "dropped"
                /\ Miss(t, "dropped")
                /\ UNCHANGED heap
           ELSE \E g \in Args :
                  /\ heap' = [heap EXCEPT
                       ![a].traces[d] =
                          StoreAt(@, r.count[d], Stored(call[t], g)),
                       ![a].count[d] = @ + 1]
                  /\ last' = "appended"
                  /\ UNCHANGED missed
  /\ Return(t)
  /\ UNCHANGED << dxt_mem_remaining, instrumentation_disabled, dxt_runtime,
                  my_rank, mutex_owner, mutex_count, dxt_buf, fault, env,
                  granted, short >>

\* ------------------------------------------------------------ shutdown
\* memcpy(tmp_buf_ptr, file_rec, sizeof(struct dxt_file_record))
FileRecBytes(r) ==
  [ base_rec |-> r.base_rec,
    write_count |-> r.count["write"], read_count |-> r.count["read"] ]

\* record_size = sizeof(struct dxt_file_record) +
\*     (record_write_count + record_read_count) * sizeof(segment_info)
RecordSize(r) ==
  SizeofDxtFileRecord + (r.count["write"] + r.count["read"]) * SizeofSegmentInfo

\* a copy that puts the read segments first
RecordBytes_ReadsFirst(r) ==
  << FileRecBytes(r) >> \o SubSeq(r.traces["read"], 1, r.count["read"])
                       \o SubSeq(r.traces["write"], 1, r.count["write"])
\* the three memcpy of one record: the file record, the write segments, the
\* read segments
RecordBytes(r) ==
  << FileRecBytes(r) >> \o SubSeq(r.traces["write"], 1, r.count["write"])
                       \o SubSeq(r.traces["read"], 1, r.count["read"])

\* HASH_ITER over the module's hash, in insertion order, from entry i on:
\* skip a record without segments, else append the file record, its
\* write_count write segments and its read_count read segments.
RECURSIVE SerializeFrom(_, _, _)
SerializeFrom(hash, i, out) ==
  IF i > Len(hash) THEN out
  ELSE LET r == heap[hash[i]]
       IN  IF r.count["write"] = 0 /\ r.count["read"] = 0
             THEN SerializeFrom(hash, i + 1, out)
             ELSE SerializeFrom(hash, i + 1,
                    [ out EXCEPT
                        !.buf = @ \o RecordBytes(r),
                        !.sz = @ + RecordSize(r) ])

\* dxt_posix_cleanup_runtime / dxt_mpiio_cleanup_runtime: free the trace
\* buffers and the records of the module's hash.  dxt_mem_remaining is not
\* credited.
CleanupHeap(hash) ==
  [ a \in 1..Len(heap) |->
      IF \E i \in 1..Len(hash) : hash[i] = a THEN FreedRecRef(heap[a]) ELSE heap[a] ]

\* dxt_posix_shutdown / dxt_mpiio_shutdown, called by darshan-core once the
\* instrumented threads are quiet.  The output buffer's malloc/realloc is not
\* checked: when it fails the memcpy writes through a null pointer.
Shutdown(m) ==
  /\ ~fault
  /\ UNCHANGED parser_vars
  /\ UNCHANGED mount_vars
  /\ \A t \in Threads : pc[t] = "idle"
  /\ dxt_runtime[m].allocated
  /\ LET hash == dxt_runtime[m].rec_id_hash
         out == SerializeFrom(hash, 1, [returned |-> TRUE, buf |-> << >>, sz |-> 0])
     IN  \E ok \in Outcomes :
           IF ~ok /\ out.sz > 0
             THEN /\ fault' = TRUE
                  /\ last' = "shutdown_fault"
                  /\ UNCHANGED << dxt_buf, heap, dxt_runtime, instrumentation_disabled,
                                  dxt_mem_remaining >>
             ELSE /\ dxt_buf' = [dxt_buf EXCEPT ![m] = out]
                  /\ heap' = CleanupHeap(hash)
                  /\ dxt_mem_remaining' = AfterCleanup(dxt_mem_remaining, hash)
                  /\ dxt_runtime' = [dxt_runtime EXCEPT ![m] = NullRuntime]
                  /\ instrumentation_disabled' = TRUE
                  /\ last' = "shutdown"
                  /\ UNCHANGED fault
  /\ UNCHANGED << my_rank, mutex_owner, mutex_count, pc, call,
                  rec_ref, loc, env, granted, short, missed >>

\* ------------------------------------------------------------ specification
Next ==
  \/ \E t \in Threads : TraceCall(t)
  \/ \E t \in Threads : RuntimeInitialize(t)
  \/ \E t \in Threads : Lookup(t)
  \/ \E t \in Threads : TrackLock(t)
  \/ \E t \in Threads : TrackCheck(t)
  \/ \E t \in Threads : TrackDebit(t)
  \/ \E t \in Threads : TrackInit(t)
  \/ \E t \in Threads : CheckTraceBuf(t)
  \/ \E t \in Threads : GrowLock(t)
  \/ \E t \in Threads : GrowClamp(t)
  \/ \E t \in Threads : GrowDebit(t)
  \/ \E t \in Threads : GrowRealloc(t)
  \/ \E t \in Threads : AppendSegment(t)
  \/ \E m \in Modules : Shutdown(m)

\* one application thread
Spec == Init /\ [][Next]_vars
\* one application thread, and the observer of missed calls
SpecObs == InitObs /\ [][Next]_vars
\* two application threads
SpecMT == InitMT /\ [][Next]_vars
\* two application threads in one module, allocations may fail
SpecRace == InitRace /\ [][Next]_vars

\* ------------------------------------------------------------ aggregation
\* #define max(a,b) (((a) > (b)) ? (a) : (b))
max(a, b) == IF a > b THEN a ELSE b

\* mod_logutils[..]->log_agg_records(pfile, tmp, init_flag): the pairwise fold
\* of a record into an accumulator; the first call initialises the
\* accumulator with the record, later calls add the record's counters.
log_agg_records(pfile, rec_dat, init_flag) ==
  IF init_flag
    THEN [ allocated |-> TRUE, READS |-> pfile.READS, WRITES |-> pfile.WRITES,
           BYTES_READ |-> pfile.BYTES_READ,
           BYTES_WRITTEN |-> pfile.BYTES_WRITTEN ]
    ELSE [ allocated |-> TRUE,
           READS |-> rec_dat.READS + pfile.READS,
           WRITES |-> rec_dat.WRITES + pfile.WRITES,
           BYTES_READ |-> rec_dat.BYTES_READ + pfile.BYTES_READ,
           BYTES_WRITTEN |-> rec_dat.BYTES_WRITTEN + pfile.BYTES_WRITTEN ]

\* hfile->slowest_io_total_time after the fold of pfile
SlowestAfter(pfile, hfile) ==
  IF pfile.rank = -1
    THEN pfile.F_SLOWEST_RANK_TIME
    ELSE max(hfile.slowest_io_total_time, IoTime(pfile))

ProcsAfter_CountsOnce(pfile, hfile, nprocs) ==
  IF pfile.rank = -1 THEN nprocs ELSE max(hfile.procs, 1)
\* hfile->procs after the fold of pfile
ProcsAfter(pfile, hfile, nprocs) ==
  IF pfile.rank = -1 THEN nprocs ELSE hfile.procs + 1

TypeAfter_KeepsUnique(pfile, hfile) ==
  IF pfile.rank = -1
    THEN hfile.type \cup {FILETYPE_SHARED}
    ELSE IF hfile.procs + 1 > 1
      THEN hfile.type \ {FILETYPE_UNIQUE}
      ELSE hfile.type \cup {FILETYPE_UNIQUE}
\* hfile->type after the fold of pfile; procs was incremented before the test
TypeAfter(pfile, hfile) ==
  IF pfile.rank = -1
    THEN hfile.type \cup {FILETYPE_SHARED}
    ELSE IF hfile.procs + 1 > 1
      THEN (hfile.type \ {FILETYPE_UNIQUE}) \cup {FILETYPE_PARTSHARED}
      ELSE hfile.type \cup {FILETYPE_UNIQUE}

\* posix_accum_file, mpiio_accum_file, stdio_accum_file: the three differ in
\* the record type alone.  The value is *hfile after the call.
accum_file(pfile, hfile, nprocs) ==
  [ rec_id |-> hfile.rec_id,
    procs |-> ProcsAfter(pfile, hfile, nprocs),
    slowest_io_total_time |-> SlowestAfter(pfile, hfile),
    type |-> TypeAfter(pfile, hfile),
    cumul_io_total_time |-> hfile.cumul_io_total_time + IoTime(pfile),
    rec_dat |-> log_agg_records(pfile, hfile.rec_dat,
                                ~hfile.rec_dat.allocated) ]

\* the index of a per-rank vector is one of its nprocs elements
InVector(rank, v) == rank \in DOMAIN v

\* posix_accum_perf, mpiio_accum_perf, stdio_accum_perf for a record whose
\* rank is -1 or an index of the per-rank vectors.  The value is *pdata after
\* the call.
accum_perf(pfile, pd) ==
  LET bytes == pfile.BYTES_READ + pfile.BYTES_WRITTEN
      rank == pfile.rank
  IN IF rank = -1
       THEN [pd EXCEPT
               !.total_bytes = @ + bytes,
               !.shared_io_total_time_by_slowest =
                  @ + pfile.F_SLOWEST_RANK_TIME]
       ELSE [pd EXCEPT
               !.total_bytes = @ + bytes,
               !.rank_cumul_io_total_time[rank] = @ + IoTime(pfile),
               !.rank_cumul_md_only_time[rank] = @ + pfile.F_META_TIME,
               !.rank_cumul_rw_only_time[rank] =
                  @ + pfile.F_READ_TIME + pfile.F_WRITE_TIME]

\* What a store through pd->rank_cumul_*[rank] can do when rank is no index
\* of the vectors: the process dies on it, or the stores land in memory the
\* parser never reads again, or they land in the vector malloc placed next
\* (rank_cumul_rw_only_time follows rank_cumul_io_total_time).
OutOfBounds == {"crash", "stray", "neighbour"}
accum_perf_oob(pfile, pd, how) ==
  LET bytes == pfile.BYTES_READ + pfile.BYTES_WRITTEN
  IN IF how = "neighbour"
       THEN [pd EXCEPT
               !.total_bytes = @ + bytes,
               !.rank_cumul_rw_only_time[0] = @ + IoTime(pfile)]
       ELSE [pd EXCEPT !.total_bytes = @ + bytes]

TallyEntry_ReadWriteInBoth(curr, fd) ==
  LET bytes == curr.rec_dat.BYTES_READ + curr.rec_dat.BYTES_WRITTEN
      r == curr.rec_dat.READS
      w == curr.rec_dat.WRITES
      t1 == [fd EXCEPT !.total = @ + 1, !.total_size = @ + bytes,
                       !.total_max = max(@, bytes)]
      t2 == IF r # 0
              THEN [t1 EXCEPT !.read_only = @ + 1, !.read_only_size = @ + bytes,
                              !.read_only_max = max(@, bytes)]
              ELSE t1
      t3 == IF w # 0
              THEN [t2 EXCEPT !.write_only = @ + 1,
                              !.write_only_size = @ + bytes,
                              !.write_only_max = max(@, bytes)]
              ELSE t2
      t4 == IF r # 0 /\ w # 0
              THEN [t3 EXCEPT !.read_write = @ + 1,
                              !.read_write_size = @ + bytes,
                              !.read_write_max = max(@, bytes)]
              ELSE t3
      t5 == IF curr.type \cap {FILETYPE_SHARED, FILETYPE_PARTSHARED} # {}
              THEN [t4 EXCEPT !.shared = @ + 1, !.shared_size = @ + bytes,
                              !.shared_max = max(@, bytes)]
              ELSE t4
  IN IF FILETYPE_UNIQUE \in curr.type
       THEN [t5 EXCEPT !.unique = @ + 1, !.unique_size = @ + bytes,
                       !.unique_max = max(@, bytes)]
       ELSE t5
\* One pass of the HASH_ITER body of posix_calc_file, mpiio_calc_file,
\* stdio_calc_file: *fdata after the entry curr was tallied.  r and w are the
\* read and write call totals of the aggregated record (MPI-IO adds up its
\* independent, collective, split and non-blocking calls).
TallyEntry(curr, fd) ==
  LET bytes == curr.rec_dat.BYTES_READ + curr.rec_dat.BYTES_WRITTEN
      r == curr.rec_dat.READS
      w == curr.rec_dat.WRITES
      t1 == [fd EXCEPT !.total = @ + 1, !.total_size = @ + bytes,
                       !.total_max = max(@, bytes)]
      t2 == IF r # 0 /\ w = 0
              THEN [t1 EXCEPT !.read_only = @ + 1, !.read_only_size = @ + bytes,
                              !.read_only_max = max(@, bytes)]
              ELSE t1
      t3 == IF r = 0 /\ w # 0
              THEN [t2 EXCEPT !.write_only = @ + 1,
                              !.write_only_size = @ + bytes,
                              !.write_only_max = max(@, bytes)]
              ELSE t2
      t4 == IF r # 0 /\ w # 0
              THEN [t3 EXCEPT !.read_write = @ + 1,
                              !.read_write_size = @ + bytes,
                              !.read_write_max = max(@, bytes)]
              ELSE t3
      t5 == IF curr.type \cap {FILETYPE_SHARED, FILETYPE_PARTSHARED} # {}
              THEN [t4 EXCEPT !.shared = @ + 1, !.shared_size = @ + bytes,
                              !.shared_max = max(@, bytes)]
              ELSE t4
  IN IF FILETYPE_UNIQUE \in curr.type
       THEN [t5 EXCEPT !.unique = @ + 1, !.unique_size = @ + bytes,
                       !.unique_max = max(@, bytes)]
       ELSE t5

\* HASH_ITER over the entries whose ids are in ids, starting from fd
RECURSIVE TallyFrom(_, _, _)
TallyFrom(hash, ids, fd) ==
  IF ids = {}
    THEN fd
    ELSE LET id == CHOOSE x \in ids : \A y \in ids : x <= y
         IN TallyFrom(hash, ids \ {id}, TallyEntry(hash[id], fd))

\* posix_calc_file, mpiio_calc_file, stdio_calc_file: *fdata after the call
calc_file(hash) == TallyFrom(hash, DOMAIN hash, ZeroFileData)

RECURSIVE SlowestFrom_LastWins(_, _, _)
SlowestFrom_LastWins(pd, i, nprocs) ==
  IF i >= nprocs
    THEN pd
    ELSE SlowestFrom_LastWins(
           IF pd.rank_cumul_io_total_time[i] >= pd.slowest_rank_io_total_time
             THEN [pd EXCEPT
                     !.slowest_rank_io_total_time =
                        pd.rank_cumul_io_total_time[i],
                     !.slowest_rank_meta_only_time =
                        pd.rank_cumul_md_only_time[i],
                     !.slowest_rank_rw_only_time =
                        pd.rank_cumul_rw_only_time[i],
                     !.slowest_rank_rank = i]
             ELSE pd,
           i + 1, nprocs)
\* the for loop of calc_perf from index i on
RECURSIVE SlowestFrom(_, _, _)
SlowestFrom(pd, i, nprocs) ==
  IF i >= nprocs
    THEN pd
    ELSE SlowestFrom(
           IF pd.rank_cumul_io_total_time[i] > pd.slowest_rank_io_total_time
             THEN [pd EXCEPT
                     !.slowest_rank_io_total_time =
                        pd.rank_cumul_io_total_time[i],
                     !.slowest_rank_meta_only_time =
                        pd.rank_cumul_md_only_time[i],
                     !.slowest_rank_rw_only_time =
                        pd.rank_cumul_rw_only_time[i],
                     !.slowest_rank_rank = i]
             ELSE pd,
           i + 1, nprocs)

calc_perf_Unguarded(pd, nprocs) ==
  LET p1 == SlowestFrom(pd, 0, nprocs)
      time == p1.slowest_rank_io_total_time + p1.shared_io_total_time_by_slowest
  IN [p1 EXCEPT !.agg_perf_by_slowest = Quotient(p1.total_bytes, time),
                !.agg_time_by_slowest = time]
\* calc_perf: *pdata after the call.  The division is guarded, the
\* assignment of agg_time_by_slowest is not.
calc_perf(pd, nprocs) ==
  LET p1 == SlowestFrom(pd, 0, nprocs)
      time == p1.slowest_rank_io_total_time + p1.shared_io_total_time_by_slowest
      p2 == IF time # 0
              THEN [p1 EXCEPT !.agg_perf_by_slowest =
                                 Quotient(p1.total_bytes, time)]
              ELSE p1
  IN [p2 EXCEPT !.agg_time_by_slowest = time]

\* ------------------------------------------------------------ parser main
ModuleFilter_EmptyFirst(m, len, partial, o) ==
  IF len = 0 THEN "empty"
  ELSE IF IsDxtModule(m) THEN "dxt"
  ELSE IF ~Aggregating(m) /\ "BASE" \notin o THEN "not_parsed"
  ELSE IF partial /\ "SHOW_INCOMPLETE" \notin o THEN "incomplete_error"
  ELSE "parse"
\* What the filter chain at the top of the module loop and the partial-flag
\* check do with module m, whose region holds len bytes and whose partial
\* flag is partial, under the options o.
ModuleFilter(m, len, partial, o) ==
  IF len = 0 /\ ~partial THEN "empty"
  ELSE IF len # 0 /\ IsDxtModule(m) THEN "dxt"
  ELSE IF len # 0 /\ ~Aggregating(m) /\ "BASE" \notin o THEN "not_parsed"
  ELSE IF partial /\ "SHOW_INCOMPLETE" \notin o THEN "incomplete_error"
  ELSE IF partial /\ len = 0 THEN "incomplete_empty"
  ELSE "parse"

\* the banner and the warning printed before a module's records
Banner(partial) ==
  IF partial THEN {"banner", "incomplete_warning"} ELSE {"banner"}

EmptyModsAfter_CountsAll(len) == empty_mods + 1
\* empty_mods after the filter chain saw a region of len bytes
EmptyModsAfter(len) == IF len = 0 THEN empty_mods + 1 ELSE empty_mods

AtModule == parser_pc = "module" /\ mod_idx <= DARSHAN_MAX_MODS

\* mod_in once the module loop looks at a region of len bytes whose partial
\* flag is partial
Looked(len, partial) ==
  [ len |-> len, partial |-> partial, data |-> mod_in.data \/ len # 0,
    nrec |-> 0 ]

\* one iteration of the module loop that ends in a continue before the record
\* loop
ModuleSkip ==
  /\ AtModule
  /\ \E len \in {0, 1}, partial \in BOOLEAN :
       LET f == ModuleFilter(mod_idx, len, partial, mask)
       IN /\ f \in {"empty", "dxt", "not_parsed", "incomplete_empty"}
          /\ empty_mods' = EmptyModsAfter(len)
          /\ printed' = IF f = "incomplete_empty" THEN Banner(partial) ELSE {}
          /\ mod_outcome' = f
          /\ mod_in' = Looked(len, partial)
  /\ mod_idx' = mod_idx + 1
  /\ UNCHANGED << log_env, job_nprocs, mask, parser_pc, file_hash_table, total,
                  fdata, pdata, ret, nread, folded, failed >>
  /\ UNCHANGED dxt_vars
  /\ UNCHANGED mount_vars

\* a module with the partial flag and no --show-incomplete: return(-1)
ModuleIncomplete ==
  /\ AtModule
  /\ \E len \in {0, 1} :
       /\ ModuleFilter(mod_idx, len, TRUE, mask) = "incomplete_error"
       /\ empty_mods' = EmptyModsAfter(len)
       /\ mod_in' = Looked(len, TRUE)
  /\ printed' = {"banner", "incomplete_error"}
  /\ mod_outcome' = "incomplete_error"
  /\ failed' = TRUE
  /\ parser_pc' = "done"
  /\ ret' = -1
  /\ UNCHANGED << log_env, job_nprocs, mask, mod_idx, file_hash_table, total,
                  fdata, pdata, nread, folded >>
  /\ UNCHANGED dxt_vars
  /\ UNCHANGED mount_vars

\* a module with data to be parsed: banner, warning, description header
ModuleBegin ==
  /\ AtModule
  /\ \E partial \in BOOLEAN :
       /\ ModuleFilter(mod_idx, 1, partial, mask) = "parse"
       /\ printed' = Banner(partial)
                       \cup (IF "BASE" \in mask THEN {"description"} ELSE {})
       /\ mod_in' = Looked(1, partial)
  /\ parser_pc' = "records"
  /\ UNCHANGED << log_env, job_nprocs, mask, mod_idx, file_hash_table, total,
                  fdata, pdata, ret, empty_mods, nread, folded, mod_outcome,
                  failed >>
  /\ UNCHANGED dxt_vars
  /\ UNCHANGED mount_vars

\* HASH_FIND in file_hash_table, and the entry main() adds when it finds none
FindOrAdd(hash, id) == IF id \in DOMAIN hash THEN hash[id] ELSE NewHashEntry(id)

\* HASH_ADD (or the update through the pointer HASH_FIND returned)
Put(hash, id, h) ==
  [x \in DOMAIN hash \cup {id} |-> IF x = id THEN h ELSE hash[x]]

\* One pass of the record loop in which log_get_record returns a record: the
\* record is printed under OPTION_BASE, and for POSIX, MPI-IO and STDIO it is
\* folded into total, into its file's hash entry and into pdata.
GetRecord ==
  /\ parser_pc = "records"
  /\ nread < MaxRecords
  /\ \E pfile \in log_env.records, oob \in OutOfBounds :
       /\ nread' = nread + 1
       /\ mod_in' = [mod_in EXCEPT !.nrec = @ + 1]
       /\ ret' = 1
       /\ printed' = printed \cup (IF "BASE" \in mask THEN {"record"} ELSE {})
       /\ IF ~Aggregating(mod_idx)
            THEN UNCHANGED << file_hash_table, total, pdata, folded, parser_pc >>
            ELSE /\ total' = accum_file(pfile, total, job_nprocs)
                 /\ file_hash_table' =
                      Put(file_hash_table, pfile.id,
                          accum_file(pfile, FindOrAdd(file_hash_table, pfile.id),
                                     job_nprocs))
                 /\ folded' = Append(folded, pfile)
                 /\ IF pfile.rank = -1
                       \/ InVector(pfile.rank, pdata.rank_cumul_io_total_time)
                      THEN /\ pdata' = accum_perf(pfile, pdata)
                           /\ parser_pc' = parser_pc
                      ELSE /\ pdata' = accum_perf_oob(pfile, pdata, oob)
                           /\ parser_pc' =
                                IF oob = "crash" THEN "crashed" ELSE parser_pc
  /\ UNCHANGED << log_env, job_nprocs, mask, mod_idx, fdata, empty_mods,
                  mod_outcome, failed >>
  /\ UNCHANGED dxt_vars
  /\ UNCHANGED mount_vars

\* malloc(sizeof(*hfile)) fails for a record of a file not yet in the hash:
\* ret = -1; goto cleanup
HashEntryNoMemory ==
  /\ parser_pc = "records"
  /\ nread < MaxRecords
  /\ Aggregating(mod_idx)
  /\ \E pfile \in log_env.records : pfile.id \notin DOMAIN file_hash_table
  /\ nread' = nread + 1
  /\ mod_in' = [mod_in EXCEPT !.nrec = @ + 1]
  /\ ret' = -1
  /\ parser_pc' = "done"
  /\ mod_outcome' = "no_memory"
  /\ failed' = TRUE
  /\ UNCHANGED << log_env, job_nprocs, mask, mod_idx, file_hash_table, total,
                  fdata, pdata, empty_mods, printed, folded >>
  /\ UNCHANGED dxt_vars
  /\ UNCHANGED mount_vars

\* log_get_record returns 0: the record loop ends; a module that is printed
\* only goes on to the next module
EndOfRecords ==
  /\ parser_pc = "records"
  /\ ret' = 0
  /\ IF Aggregating(mod_idx)
       THEN /\ parser_pc' = "finalize"
            /\ UNCHANGED << mod_idx, mod_outcome >>
       ELSE /\ parser_pc' = "module"
            /\ mod_idx' = mod_idx + 1
            /\ mod_outcome' = "printed"
  /\ UNCHANGED << log_env, job_nprocs, mask, file_hash_table, total, fdata,
                  pdata, empty_mods, printed, nread, folded, mod_in, failed >>
  /\ UNCHANGED dxt_vars
  /\ UNCHANGED mount_vars

DecodeError_Finalizes ==
  /\ parser_pc = "records"
  /\ ret' = -1
  /\ printed' = printed \cup {"decode_error"}
  /\ parser_pc' = "finalize"
  /\ failed' = TRUE
  /\ UNCHANGED << log_env, job_nprocs, mask, mod_idx, file_hash_table, total,
                  fdata, pdata, empty_mods, nread, folded, mod_in, mod_outcome >>
  /\ UNCHANGED dxt_vars
  /\ UNCHANGED mount_vars
\* log_get_record returns -1: the error is reported, the record loop ends and
\* "if(ret == -1) continue;" moves on to the next module
DecodeError ==
  /\ parser_pc = "records"
  /\ ret' = -1
  /\ printed' = printed \cup {"decode_error"}
  /\ parser_pc' = "module"
  /\ mod_idx' = mod_idx + 1
  /\ mod_outcome' = "decode_error"
  /\ failed' = TRUE
  /\ UNCHANGED << log_env, job_nprocs, mask, file_hash_table, total, fdata,
                  pdata, empty_mods, nread, folded, mod_in >>
  /\ UNCHANGED dxt_vars
  /\ UNCHANGED mount_vars

\* the blocks the options ask for
Blocks(o) == o \cap {"TOTAL", "FILE", "PERF"}

\* What the reads of pfile->counters[i] in *_print_total_file can do when
\* pfile is NULL: the process dies on the first one, or they deliver whatever
\* lies at that address and the totals are printed from it.
NullRead == {"crash", "stray"}

\* *_print_total_file is handed total.rec_dat as it is
PrintsTotal == parser_pc = "finalize" /\ "TOTAL" \in mask

\* Total Calc, File Calc, Perf Calc
Finalize ==
  /\ parser_pc = "finalize"
  /\ \E how \in NullRead :
       IF PrintsTotal /\ ~total.rec_dat.allocated /\ how = "crash"
         THEN /\ parser_pc' = "crashed"
              /\ UNCHANGED << fdata, pdata, printed >>
         ELSE /\ fdata' = IF "FILE" \in mask
                            THEN calc_file(file_hash_table) ELSE fdata
              /\ pdata' = IF "PERF" \in mask
                            THEN calc_perf(pdata, job_nprocs) ELSE pdata
              /\ printed' = printed \cup Blocks(mask)
              /\ parser_pc' = "reset"
  /\ UNCHANGED << log_env, job_nprocs, mask, mod_idx, file_hash_table, total,
                  ret, empty_mods, nread, folded, mod_outcome, mod_in, failed >>
  /\ UNCHANGED dxt_vars
  /\ UNCHANGED mount_vars

ResetPerfData_KeepsVectors(pd, nprocs) ==
  [ZeroPerfData(nprocs) EXCEPT
     !.rank_cumul_io_total_time = pd.rank_cumul_io_total_time,
     !.rank_cumul_rw_only_time = pd.rank_cumul_rw_only_time,
     !.rank_cumul_md_only_time = pd.rank_cumul_md_only_time]
\* memset(&pdata, 0, ..) around the saved vector pointers, and the memset of
\* the three vectors over nprocs doubles
ResetPerfData(pd, nprocs) == ZeroPerfData(nprocs)

\* reset data structures for next module
Reset ==
  /\ parser_pc = "reset"
  /\ total' = NewHashEntry(0)
  /\ fdata' = ZeroFileData
  /\ pdata' = ResetPerfData(pdata, job_nprocs)
  /\ file_hash_table' = EmptyHash
  /\ folded' = << >>
  /\ parser_pc' = "module"
  /\ mod_idx' = mod_idx + 1
  /\ mod_outcome' = "processed"
  /\ UNCHANGED << log_env, job_nprocs, mask, ret, empty_mods, printed, nread,
                  mod_in, failed >>
  /\ UNCHANGED dxt_vars
  /\ UNCHANGED mount_vars

\* after the module loop: the sentinel, ret = 0, cleanup, return(ret)
ParserExit ==
  /\ parser_pc = "module"
  /\ mod_idx > DARSHAN_MAX_MODS
  /\ printed' = IF empty_mods = DARSHAN_MAX_MODS THEN {"no_module_data"} ELSE {}
  /\ ret' = 0
  /\ parser_pc' = "done"
  /\ UNCHANGED << log_env, job_nprocs, mask, mod_idx, file_hash_table, total,
                  fdata, pdata, empty_mods, nread, folded, mod_outcome, mod_in,
                  failed >>
  /\ UNCHANGED dxt_vars
  /\ UNCHANGED mount_vars

NextParser ==
  \/ ModuleSkip
  \/ ModuleIncomplete
  \/ ModuleBegin
  \/ GetRecord
  \/ HashEntryNoMemory
  \/ EndOfRecords
  \/ DecodeError
  \/ Finalize
  \/ Reset
  \/ ParserExit

\* darshan-parser on a log of a job of 1..MaxNprocs ranks, with either set of
\* options; no trace call runs
InitParser ==
  /\ DxtInitFor([threads |-> 0, files |-> {}, segs |-> {}, may_fail |-> FALSE,
                 observe |-> FALSE])
  /\ \E n \in 1..MaxNprocs, o \in Masks : ParserInitFor(n, o, "module")
  /\ log_env = [records |-> ParserRecords]
  /\ MountOff

SpecParser == InitParser /\ [][NextParser]_vars

\* darshan-parser on a log whose records are shared (rank -1) or of rank 0,
\* among them records of files that were opened and neither read nor written
InitFiles ==
  /\ DxtInitFor([threads |-> 0, files |-> {}, segs |-> {}, may_fail |-> FALSE,
                 observe |-> FALSE])
  /\ \E n \in 1..MaxNprocs, o \in Masks : ParserInitFor(n, o, "module")
  /\ log_env = [records |-> LogRecords(FileIds, {-1, 0}, 0..MaxShape)]
  /\ MountOff

SpecFiles == InitFiles /\ [][NextParser]_vars

\* ------------------------------------------------ name and mount resolution
\* strncmp(mnt_path, rec_name, strlen(mnt_path)) == 0
PrefixMatch(mnt_path, rec_name) ==
  /\ Len(mnt_path) <= Len(rec_name)
  /\ SubSeq(rec_name, 1, Len(mnt_path)) = mnt_path

\* the for loop over mnt_data_array from index j on: the entry at which it
\* breaks, or 0 when it runs to mount_count
RECURSIVE FirstMatchFrom(_, _)
FirstMatchFrom(j, rec_name) ==
  IF j > Len(mnt_data_array)
    THEN 0
    ELSE IF PrefixMatch(mnt_data_array[j].mnt_path, rec_name)
           THEN j
           ELSE FirstMatchFrom(j + 1, rec_name)

\* the record loop got a record of some id; mnt_pt and fs_type start as NULL
LookupRecord ==
  /\ lookup_pc \in {"idle", "resolved"}
  /\ \E id \in FileIds : lookup_id' = id
  /\ mnt_pt' = NullPath
  /\ fs_type' = NullType
  /\ lookup_pc' = "lookup"
  /\ UNCHANGED << mnt_data_array, name_hash >>
  /\ UNCHANGED dxt_vars
  /\ UNCHANGED parser_vars

\* HASH_FIND in name_hash, the loop over the mount table, and the UNKNOWN
\* defaults
ResolveMount ==
  /\ lookup_pc = "lookup"
  /\ LET j == IF lookup_id \in DOMAIN name_hash
                THEN FirstMatchFrom(1, name_hash[lookup_id])
                ELSE 0
     IN /\ mnt_pt' = IF j # 0 THEN mnt_data_array[j].mnt_path ELSE UnknownPath
        /\ fs_type' = IF j # 0 THEN mnt_data_array[j].mnt_type ELSE UnknownType
  /\ lookup_pc' = "resolved"
  /\ UNCHANGED << mnt_data_array, name_hash, lookup_id >>
  /\ UNCHANGED dxt_vars
  /\ UNCHANGED parser_vars

NextMount ==
  \/ LookupRecord
  \/ ResolveMount

\* the record loop of darshan-parser on a log with any mount table and any
\* name hash within the bounds
InitMount ==
  /\ DxtInitFor([threads |-> 0, files |-> {}, segs |-> {}, may_fail |-> FALSE,
                 observe |-> FALSE])
  /\ ParserOff
  /\ mnt_data_array \in MountTables
  /\ name_hash \in NameHashes
  /\ lookup_id = 0
  /\ lookup_pc = "idle"
  /\ mnt_pt = NullPath
  /\ fs_type = NullType

SpecMount == InitMount /\ [][NextMount]_vars

\* ------------------------------------------------------------ properties
\* the bytes held by the file records from address a on: a file record and the
\* capacity of its two trace buffers for every record not yet freed
RECURSIVE HeldFrom(_)
HeldFrom(a) ==
  IF a > Len(heap) THEN 0
  ELSE (IF heap[a].freed THEN 0
        ELSE SizeofDxtFileRecord
             + (heap[a].available_buf["write"] + heap[a].available_buf["read"])
               * SizeofSegmentInfo)
       + HeldFrom(a + 1)
HeldBytes == HeldFrom(1)

\* the live record of module m with id, as a set of addresses (one or none)
RecordsOf(m, id) ==
  { a \in 1..Len(heap) : heap[a].mod = m /\ heap[a].id = id /\ ~heap[a].freed }

\* C1: the bytes held by all file records of both modules, sizeof(dxt_file_record)
\* plus the capacity of the write and read buffers times sizeof(segment_info)
\* summed over the records, never exceed DXT_IO_TRACE_MEM_MAX.
C1_HeldWithinCap == HeldBytes <= DXT_IO_TRACE_MEM_MAX

\* C1 witness: the budget is used up to less than one segment by records of
\* both modules that hold trace buffers, and the held bytes are what was debited.
C1_Witness ==
  /\ ~fault
  /\ \A t \in Threads : pc[t] = "idle"
  /\ dxt_mem_remaining < SizeofSegmentInfo
  /\ HeldBytes = DXT_IO_TRACE_MEM_MAX - dxt_mem_remaining
  /\ \A m \in Modules :
       \E a \in 1..Len(heap) :
         /\ heap[a].mod = m /\ ~heap[a].freed
         /\ heap[a].available_buf["write"] + heap[a].available_buf["read"] > 0

\* C2: dxt_mem_remaining starts at DXT_IO_TRACE_MEM_MAX, stays within
\* 0..DXT_IO_TRACE_MEM_MAX, and no step increases it: not a record creation, a
\* growth, a dropped append, nor the shutdown of a module.
C2_BudgetOnlyFalls ==
  /\ dxt_mem_remaining = DXT_IO_TRACE_MEM_MAX
  /\ [](dxt_mem_remaining \in 0..DXT_IO_TRACE_MEM_MAX)
  /\ [][dxt_mem_remaining' <= dxt_mem_remaining]_vars

\* C2 witness: a module has been shut down, its records are freed, and the
\* budget is still what the records and buffers had left of it.
C2_Witness ==
  /\ last = "shutdown"
  /\ instrumentation_disabled
  /\ dxt_mem_remaining < DXT_IO_TRACE_MEM_MAX
  /\ \E a \in 1..Len(heap) : heap[a].freed

\* C3: a file record is created only for an id without one; when
\* dxt_mem_remaining < sizeof(dxt_file_record) the creation is refused and the
\* call returns with the budget, the record table and every record unchanged;
\* a record is added only when the budget suffices, one at a time, to the hash
\* of the call's module, and the step that follows debits the budget by exactly
\* sizeof(dxt_file_record).
C3_RecordCreation ==
  /\ [](\A t \in Threads :
          pc[t] \in {"track_lock", "track_check"}
            => RecordsOf(call[t].mod, call[t].rec_id) = {})
  /\ [][/\ \A t \in Threads :
             /\ ( /\ pc[t] = "track_check" /\ pc'[t] # pc[t]
                  /\ dxt_mem_remaining < SizeofDxtFileRecord )
                  => /\ pc'[t] = "idle"
                     /\ last' = "refused"
                     /\ dxt_mem_remaining' = dxt_mem_remaining
                     /\ heap' = heap
                     /\ dxt_runtime' = dxt_runtime
                     /\ fault' = fault
             /\ ( pc[t] = "track_debit" /\ pc'[t] # pc[t] )
                  => /\ dxt_mem_remaining' = dxt_mem_remaining - SizeofDxtFileRecord
                     /\ heap' = heap
                     /\ dxt_runtime' = dxt_runtime
        /\ Len(heap') # Len(heap)
             => \E t \in Threads :
                  /\ pc[t] = "track_check" /\ pc'[t] = "track_debit"
                  /\ dxt_mem_remaining >= SizeofDxtFileRecord
                  /\ Len(heap') = Len(heap) + 1
                  /\ SubSeq(heap', 1, Len(heap)) = heap
                  /\ heap'[Len(heap')].mod = call[t].mod
                  /\ heap'[Len(heap')].id = call[t].rec_id
                  /\ dxt_runtime'[call[t].mod].rec_id_hash =
                       Append(dxt_runtime[call[t].mod].rec_id_hash, Len(heap'))
                  /\ \A m \in Modules \ {call[t].mod} :
                       dxt_runtime'[m] = dxt_runtime[m]
       ]_vars

\* C3 witness: a creation has just been refused for lack of budget while
\* records created earlier exist.
C3_Witness ==
  /\ last = "refused"
  /\ dxt_mem_remaining < SizeofDxtFileRecord
  /\ \E a \in 1..Len(heap) : ~heap[a].freed /\ heap[a].linked

Min(x, y) == IF x <= y THEN x ELSE y

\* C4: growth of one direction of a record is requested exactly when its count
\* has reached its capacity; the request is IO_TRACE_BUF_SIZE segments for a
\* capacity of 0 and the capacity itself otherwise; the grant is the smaller of
\* the request and dxt_mem_remaining / sizeof(segment_info), rounded down; the
\* budget is debited by the grant times sizeof(segment_info), the capacity
\* grows by the grant, and nothing else but a record creation debits the budget.
C4_Growth ==
  [][/\ \A t \in Threads :
          /\ ( pc[t] = "check_trace_buf" /\ pc'[t] # pc[t] )
               => LET cnt == heap[rec_ref[t]].count[call[t].dir]
                      cap == heap[rec_ref[t]].available_buf[call[t].dir]
                  IN  /\ (pc'[t] = "grow_lock") <=> (cnt >= cap)
                      /\ pc'[t] # "grow_lock" => pc'[t] = "append"
                      /\ pc'[t] = "grow_lock"
                           => loc'[t].count_inc =
                                IF cap = 0 THEN IO_TRACE_BUF_SIZE ELSE cap
                      /\ loc'[t].available_buf = cap
          /\ ( pc[t] = "grow_lock" /\ pc'[t] # pc[t] ) => loc'[t] = loc[t]
          /\ ( pc[t] = "grow_clamp" /\ pc'[t] # pc[t] )
               => loc'[t].count_inc =
                    Min(loc[t].count_inc, dxt_mem_remaining \div SizeofSegmentInfo)
          /\ ( pc[t] = "grow_debit" /\ pc'[t] # pc[t] )
               => /\ dxt_mem_remaining' =
                       dxt_mem_remaining - loc[t].count_inc * SizeofSegmentInfo
                  /\ loc'[t] = loc[t]
          /\ ( pc[t] = "grow_realloc" /\ pc'[t] # pc[t] )
               => heap'[rec_ref[t]].available_buf[call[t].dir] =
                    heap[rec_ref[t]].available_buf[call[t].dir] + loc[t].count_inc
     /\ dxt_mem_remaining' # dxt_mem_remaining
          => \E t \in Threads :
               /\ pc[t] \in {"track_debit", "grow_debit"}
               /\ pc'[t] # pc[t]
    ]_vars

\* C4 witness: a buffer that holds segments asks to double and is granted a
\* part of what it asked for.
C4_Witness ==
  \E t \in Threads :
    /\ pc[t] = "grow_debit"
    /\ loc[t].available_buf > 0
    /\ loc[t].count_inc > 0
    /\ loc[t].count_inc < loc[t].available_buf

\* C5: once a growth request has been granted less than it asked for, every
\* later growth request, of any record and direction, is granted zero segments.
C5_NoGrowthAfterShortGrant ==
  [][\A t \in Threads :
       ( pc[t] = "grow_clamp" /\ pc'[t] = "grow_debit" /\ short # "none" )
         => loc'[t].count_inc = 0
    ]_vars

\* C5 witness: a growth request was granted a part of what it asked for, and a
\* later request has just been granted nothing.
C5_Witness ==
  /\ short = "partial"
  /\ last = "clamp"
  /\ \E t \in Threads :
       pc[t] = "grow_debit" /\ loc[t].count_inc = 0 /\ loc[t].count >= loc[t].available_buf

\* thread t is in a call whose growth request was granted zero segments
ZeroGranted(t) ==
  /\ pc[t] \in {"grow_debit", "grow_realloc", "append"}
  /\ loc[t].count >= loc[t].available_buf
  /\ loc[t].count_inc = 0

\* the call of thread t is for the key of the missed call
OnMissedKey(t) ==
  /\ pc[t] # "idle"
  /\ Key(call[t].mod, call[t].rec_id, call[t].dir) = missed.key

\* no step stores a segment for the key of the missed call
NoStoreOnMissedKey ==
  \A a \in 1..Len(heap) :
    ( /\ heap[a].mod = missed.key[1] /\ heap[a].id = missed.key[2]
      /\ ~heap[a].freed /\ ~heap'[a].freed )
      => /\ heap'[a].count[missed.key[3]] = heap[a].count[missed.key[3]]
         /\ heap'[a].traces[missed.key[3]] = heap[a].traces[missed.key[3]]

\* no step changes the capacity of the buffer for the key of the missed call
NoGrowthOnMissedKey ==
  \A a \in 1..Len(heap) :
    ( /\ heap[a].mod = missed.key[1] /\ heap[a].id = missed.key[2]
      /\ ~heap[a].freed /\ ~heap'[a].freed )
      => heap'[a].available_buf[missed.key[3]] =
           heap[a].available_buf[missed.key[3]]

\* C6: a call whose growth request was granted zero segments goes on to return
\* normally with every record, the record tables and the budget unchanged; a
\* segment is dropped at the append only after such a grant; and from then on no
\* trace call changes the count, the capacity or the stored segments of that
\* direction of that record.
C6_ZeroGrantDrops ==
  [][/\ \A t \in Threads :
          /\ ( ZeroGranted(t) /\ pc'[t] # pc[t] )
               => /\ heap' = heap
                  /\ dxt_runtime' = dxt_runtime
                  /\ dxt_mem_remaining' = dxt_mem_remaining
                  /\ ~fault'
                  /\ pc[t] = "append" => pc'[t] = "idle" /\ last' = "dropped"
                  /\ pc[t] # "append" => ZeroGranted(t)'
          /\ ( pc[t] = "append" /\ last' = "dropped" /\ pc'[t] # pc[t] )
               => ZeroGranted(t)
     /\ missed.why = "dropped" => NoStoreOnMissedKey /\ NoGrowthOnMissedKey
    ]_vars

\* C6 witness: after a segment was dropped for a record that holds segments, a
\* later call for the same record and direction is granted zero again and is
\* about to be dropped.
C6_Witness ==
  /\ missed.why = "dropped"
  /\ \E t \in Threads :
       /\ OnMissedKey(t)
       /\ pc[t] = "append"
       /\ ZeroGranted(t)
       /\ heap[rec_ref[t]].count[call[t].dir] > 0

\* every step that stores a segment is the append of a call for that record and
\* direction: it puts the call's length and times (and, for POSIX, the offset)
\* behind the segments already stored and raises the count by one
StoresInIssueOrder ==
  \A a \in 1..Len(heap), d \in Dirs :
    ( /\ ~heap[a].freed /\ ~heap'[a].freed
      /\ \/ heap'[a].count[d] # heap[a].count[d]
         \/ heap'[a].traces[d] # heap[a].traces[d] )
      => \E t \in Threads :
           /\ pc[t] = "append" /\ pc'[t] = "idle"
           /\ rec_ref[t] = a /\ call[t].dir = d
           /\ heap[a].mod = call[t].mod /\ heap[a].id = call[t].rec_id
           /\ heap[a].count[d] = Len(heap[a].traces[d])
           /\ heap'[a].count[d] = heap[a].count[d] + 1
           /\ Len(heap'[a].traces[d]) = heap'[a].count[d]
           /\ SubSeq(heap'[a].traces[d], 1, heap[a].count[d]) = heap[a].traces[d]
           /\ LET s == heap'[a].traces[d][heap'[a].count[d]]
              IN  /\ s.length = call[t].seg.length
                  /\ s.start_time = call[t].seg.start_time
                  /\ s.end_time = call[t].seg.end_time
                  /\ call[t].mod = "POSIX" => s.offset = call[t].seg.offset

\* C7 as stated: the recorded segments of a record and direction are a prefix,
\* in issue order and without gaps, of the calls issued for it: every store
\* appends the segment of the call being made, and once a call for a record id
\* and direction has returned without storing its segment, no later call for
\* them stores one.
C7_PrefixOfIssued ==
  [][/\ StoresInIssueOrder
     /\ missed # NoMiss => NoStoreOnMissedKey
    ]_vars

\* C7 amended: the recorded segments are in issue order, every store appending
\* the segment of the call being made; a call that returns early because the
\* runtime or the record could not be allocated or registered leaves a gap and
\* later calls are recorded behind it; once a call was dropped for lack of
\* budget (record refused, growth granted zero) or because instrumentation is
\* disabled, no later call for that record id and direction is recorded.
C7_IssueOrderWithGaps ==
  [][/\ StoresInIssueOrder
     /\ missed.why \in {"refused", "dropped", "disabled"} => NoStoreOnMissedKey
    ]_vars

\* C7 witness: a call returned early on a failed allocation, and calls issued
\* after it for the same record id and direction have been recorded.
C7_Witness ==
  /\ missed.why \in {"alloc_failed", "init_failed"}
  /\ \E a \in 1..Len(heap) :
       /\ heap[a].mod = missed.key[1] /\ heap[a].id = missed.key[2]
       /\ ~heap[a].freed
       /\ heap[a].count[missed.key[3]] >= 2

\* a record holds at least one segment
HoldsSegments(a) == heap[a].count["write"] + heap[a].count["read"] > 0

\* what shutdown is to hand back for the records at addresses recs, in order:
\* of each the file record, its write segments, its read segments
RECURSIVE ExpectedBuf(_)
ExpectedBuf(recs) ==
  IF recs = << >> THEN << >>
  ELSE LET r == heap[Head(recs)]
       IN  << [ base_rec |-> r.base_rec, write_count |-> r.count["write"],
                read_count |-> r.count["read"] ] >>
           \o [ i \in 1..r.count["write"] |-> r.traces["write"][i] ]
           \o [ i \in 1..r.count["read"] |-> r.traces["read"][i] ]
           \o ExpectedBuf(Tail(recs))

\* the bytes of a buffer: sizeof(dxt_file_record) for a file record and
\* sizeof(segment_info) for a segment
RECURSIVE BytesOf(_)
BytesOf(buf) ==
  IF buf = << >> THEN 0
  ELSE (IF "base_rec" \in DOMAIN Head(buf) THEN SizeofDxtFileRecord
                                            ELSE SizeofSegmentInfo)
       + BytesOf(Tail(buf))

C9_DisabledIsFinal ==
  [][/\ ( ~instrumentation_disabled /\ instrumentation_disabled' )
          => last' = "shutdown"
     /\ last' = "shutdown" => instrumentation_disabled'
     /\ instrumentation_disabled
          => /\ instrumentation_disabled'
             /\ pc' = pc
             /\ \A t \in Threads : pc[t] = "idle"
             /\ dxt_mem_remaining' = dxt_mem_remaining
             /\ \A m \in Modules :
                  dxt_runtime'[m].allocated => dxt_runtime'[m] = dxt_runtime[m]
             /\ Len(heap') = Len(heap)
             /\ \A a \in 1..Len(heap) :
                  heap'[a] = heap[a] \/ (last' = "shutdown" /\ heap'[a].freed)
    ]_vars

\* C9 witness: POSIX has been shut down, and a trace call on MPI-IO, whose
\* runtime and record are still there, has just returned at once.
C9_Witness ==
  /\ last = "disabled"
  /\ instrumentation_disabled
  /\ dxt_buf["POSIX"].returned
  /\ dxt_runtime["MPIIO"].allocated
  /\ \E a \in 1..Len(heap) :
       heap[a].mod = "MPIIO" /\ ~heap[a].freed /\ heap[a].count["write"] > 0

\* thread t is between the read of dxt_mem_remaining and its debit
InBudgetSection(t) ==
  pc[t] \in {"track_check", "track_debit", "grow_clamp", "grow_debit"}

\* the bytes granted to thread t and not yet debited
PendingOf(t) ==
  IF pc[t] = "track_debit" THEN SizeofDxtFileRecord
  ELSE IF pc[t] = "grow_debit" THEN loc[t].count_inc * SizeofSegmentInfo
  ELSE 0

\* C10: with threads tracing distinct records concurrently, a thread between
\* its read of dxt_mem_remaining and its debit holds the mutex, so no two
\* threads are there together; DXT_IO_TRACE_MEM_MAX minus dxt_mem_remaining is
\* the sum of the record debits and granted increments decided so far, less
\* those still to be debited; and dxt_mem_remaining is never negative.
C10_BudgetUnderMutex ==
  /\ \A t \in Threads :
       InBudgetSection(t) => mutex_owner = t /\ mutex_count > 0
  /\ \A t, u \in Threads :
       InBudgetSection(t) /\ InBudgetSection(u) => t = u
  /\ DXT_IO_TRACE_MEM_MAX - dxt_mem_remaining =
       granted - (PendingOf(1) + PendingOf(2))
  /\ dxt_mem_remaining >= 0

\* C10 witness: one thread is about to debit a granted increment that uses up
\* the budget while the other waits for the mutex to grow a different record.
C10_Witness ==
  \E t, u \in Threads :
    /\ t # u
    /\ pc[t] = "grow_debit" /\ loc[t].count_inc > 0
    /\ dxt_mem_remaining - loc[t].count_inc * SizeofSegmentInfo < SizeofSegmentInfo
    /\ pc[u] = "grow_lock"
    /\ rec_ref[t] # rec_ref[u]

\* ------------------------------------------------------------ aggregation properties
\* the records folded into the hash entry of id since the hash was last emptied
FoldedInto(id) == SelectSeq(folded, LAMBDA r : r.id = id)
\* the places of a sequence of records that hold a shared (rank == -1) record
SharedIn(recs) == {k \in 1..Len(recs) : recs[k].rank = -1}
\* the places that hold a per-rank (rank >= 0) record
PerRankIn(recs) == {k \in 1..Len(recs) : recs[k].rank >= 0}

\* C11: after any non-empty sequence of folds into a per-file accumulator, its
\* type holds at least one of UNIQUE, PARTSHARED, SHARED.
C11_TypeNeverEmpty ==
  \A id \in FileIds :
    FoldedInto(id) # << >> =>
      /\ id \in DOMAIN file_hash_table
      /\ file_hash_table[id].type # {}
\* two per-rank records were folded into one accumulator, which is PARTSHARED
C11_Witness ==
  \E id \in DOMAIN file_hash_table :
    /\ Len(FoldedInto(id)) = 2
    /\ SharedIn(FoldedInto(id)) = {}
    /\ file_hash_table[id].type = {FILETYPE_PARTSHARED}

\* C12: no per-file accumulator, whatever per-rank and shared records were
\* folded into it in whatever order, has both SHARED and UNIQUE in its type.
C12_SharedExcludesUnique ==
  \A id \in DOMAIN file_hash_table :
    FILETYPE_SHARED \in file_hash_table[id].type =>
      FILETYPE_UNIQUE \notin file_hash_table[id].type

\* C13: PARTSHARED in the type of a per-file accumulator means that at least
\* two per-rank records and no shared record were folded into it; and an
\* accumulator a shared record was folded into has SHARED for good.
C13_PartsharedWithoutShared ==
  \A id \in DOMAIN file_hash_table :
    /\ FILETYPE_PARTSHARED \in file_hash_table[id].type =>
         /\ Cardinality(PerRankIn(FoldedInto(id))) >= 2
         /\ SharedIn(FoldedInto(id)) = {}
    /\ SharedIn(FoldedInto(id)) # {} =>
         FILETYPE_SHARED \in file_hash_table[id].type

\* C14: a per-file accumulator into which a shared record was folded has
\* procs equal to job.nprocs, whatever was folded before or after it.
C14_SharedProcsIsNprocs ==
  \A id \in DOMAIN file_hash_table :
    SharedIn(FoldedInto(id)) # {} => file_hash_table[id].procs = job_nprocs

\* the sum of cumul_io_total_time over the hash entries whose ids are in ids
RECURSIVE SumCumul(_, _)
SumCumul(hash, ids) ==
  IF ids = {}
    THEN 0
    ELSE LET id == CHOOSE x \in ids : TRUE
         IN hash[id].cumul_io_total_time + SumCumul(hash, ids \ {id})
\* the sum of the elements of a per-rank vector whose indices are in idx
RECURSIVE SumVector(_, _)
SumVector(v, idx) ==
  IF idx = {}
    THEN 0
    ELSE LET r == CHOOSE x \in idx : TRUE
         IN v[r] + SumVector(v, idx \ {r})

\* C15: conservation of time.  When all records of a module are folded, the
\* sum over the per-file accumulators of cumul_io_total_time equals the sum
\* over the ranks of rank_cumul_io_total_time plus
\* shared_io_total_time_by_slowest.
C15_TimeConserved ==
  parser_pc = "finalize" =>
    SumCumul(file_hash_table, DOMAIN file_hash_table)
      = SumVector(pdata.rank_cumul_io_total_time,
                  DOMAIN pdata.rank_cumul_io_total_time)
        + pdata.shared_io_total_time_by_slowest

\* rank is -1 or one of the ranks of the job
WellFormedRank(rank) == rank = -1 \/ (0 <= rank /\ rank < job_nprocs)

\* C16: malformed ranks are refused.  No record whose rank is neither -1 nor
\* within [0, nprocs) is folded into the per-file, totals or performance
\* accumulators, so that every index into the per-rank vectors is in range.
C16_MalformedRankRefused ==
  \A k \in 1..Len(folded) : WellFormedRank(folded[k].rank)

\* the fields of a per-file accumulator the fold of a record decides
FoldResult(h) ==
  [ type |-> h.type, procs |-> h.procs,
    cumul_io_total_time |-> h.cumul_io_total_time,
    slowest_io_total_time |-> h.slowest_io_total_time ]

\* C17: aggregation is commutative within a file.  An accumulator into which
\* r1 and then r2 were folded has the type, procs, cumul_io_total_time and
\* slowest_io_total_time that folding r2 and then r1 into a fresh accumulator
\* gives, and folding one record twice leaves procs at 2.
C17_FoldCommutes ==
  \A id \in DOMAIN file_hash_table :
    LET recs == FoldedInto(id)
    IN Len(recs) = 2 =>
         /\ FoldResult(file_hash_table[id])
              = FoldResult(accum_file(recs[1],
                                      accum_file(recs[2], NewHashEntry(id),
                                                 job_nprocs),
                                      job_nprocs))
         /\ recs[1] = recs[2] => file_hash_table[id].procs = 2

\* the largest meta+read+write time among the per-rank records of recs
RECURSIVE MaxIoTime(_)
MaxIoTime(recs) ==
  IF recs = << >>
    THEN 0
    ELSE IF Head(recs).rank = -1
      THEN MaxIoTime(Tail(recs))
      ELSE max(IoTime(Head(recs)), MaxIoTime(Tail(recs)))

\* C18: when a shared record is among the records folded into a per-file
\* accumulator, slowest_io_total_time is a shared record's SLOWEST_RANK_TIME
\* wherever it stands in the sequence; with no shared record it is the
\* largest meta+read+write time of the per-rank records.
C18_SharedSlowestOverrides ==
  \A id \in DOMAIN file_hash_table :
    LET recs == FoldedInto(id)
    IN IF SharedIn(recs) # {}
         THEN \E k \in SharedIn(recs) :
                file_hash_table[id].slowest_io_total_time
                  = recs[k].F_SLOWEST_RANK_TIME
         ELSE file_hash_table[id].slowest_io_total_time = MaxIoTime(recs)

\* the aggregation state main() has before the first module: an empty hash,
\* zeroed total, fdata and pdata, zeroed per-rank vectors
CleanAggregation ==
  /\ file_hash_table = EmptyHash
  /\ total = NewHashEntry(0)
  /\ fdata = ZeroFileData
  /\ pdata = ZeroPerfData(job_nprocs)

\* C19: no cross-module sharing.  Whenever the parser starts on the record
\* stream of a module, the aggregation state is clean, however the modules
\* before it ended.
C19_CleanAtModuleStart ==
  [][parser_pc = "module" /\ parser_pc' = "records" => CleanAggregation']_vars

\* the hash, total and pdata main() has before the first module
FreshAggregation ==
  [ hash |-> EmptyHash, total |-> NewHashEntry(0),
    pdata |-> ZeroPerfData(job_nprocs) ]

\* The record loop run over recs from the aggregation state st; outs[k] is
\* what the stores of the k-th record did if its rank is no index of the
\* per-rank vectors.
RECURSIVE Refold(_, _, _)
Refold(recs, outs, st) ==
  IF recs = << >>
    THEN st
    ELSE LET pfile == Head(recs)
         IN Refold(Tail(recs), Tail(outs),
              [ hash |-> Put(st.hash, pfile.id,
                             accum_file(pfile, FindOrAdd(st.hash, pfile.id),
                                        job_nprocs)),
                total |-> accum_file(pfile, st.total, job_nprocs),
                pdata |-> IF WellFormedRank(pfile.rank)
                            THEN accum_perf(pfile, st.pdata)
                            ELSE accum_perf_oob(pfile, st.pdata, Head(outs)) ])

\* total, the hash, the file tally and the performance results are those of
\* a first pass over the records folded since the last reset
MatchesFirstPass ==
  \E outs \in [1..Len(folded) -> OutOfBounds \ {"crash"}] :
    LET st == Refold(folded, outs, FreshAggregation)
    IN /\ total = st.total
       /\ file_hash_table = st.hash
       /\ fdata = IF "FILE" \in mask THEN calc_file(st.hash) ELSE ZeroFileData
       /\ pdata = IF "PERF" \in mask
                    THEN calc_perf(st.pdata, job_nprocs)
                    ELSE st.pdata

\* C20: the reset between modules restores the aggregation state main() had
\* before the first module (empty hash, zeroed total, fdata, pdata and
\* per-rank vectors), so that what a module's finalisation yields is what a
\* first pass over the same records yields.
C20_ResetRestores ==
  /\ [](parser_pc = "reset" => MatchesFirstPass)
  /\ [][parser_pc = "reset" /\ parser_pc' = "module" => CleanAggregation']_vars
\* the second module is finalised on one record after the first module, with
\* one record of its own, was finalised and reset
C20_Witness ==
  /\ parser_pc = "reset"
  /\ mod_idx = 2
  /\ mod_outcome = "processed"
  /\ nread = 2
  /\ Len(folded) = 1
  /\ pdata.total_bytes > 0

\* ------------------------------------------------------------ module loop properties
\* a decode error was reported and the parser went on
DecodeErrorSeen == failed /\ parser_pc \notin {"done", "crashed"}

\* module m has a decoder the parser uses under the options o
Decoded(m, o) == ~IsDxtModule(m) /\ (Aggregating(m) \/ "BASE" \in o)

\* C21: a decode error aborts the aggregation of its module only.  No
\* totals, file or performance block is printed for the failing module, the
\* parser is back at the head of the module loop, and a later module with
\* data and a decoder can still be decoded.
C21_DecodeErrorAbortsModuleOnly ==
  /\ "decode_error" \in printed =>
       /\ printed \cap {"TOTAL", "FILE", "PERF"} = {}
       /\ parser_pc = "module"
  /\ DecodeErrorSeen /\ AtModule /\ Decoded(mod_idx, mask) => ENABLED ModuleBegin
\* a module after the failing one was decoded, finalised and reported
C21_Witness ==
  /\ DecodeErrorSeen
  /\ parser_pc = "reset"
  /\ mod_in.nrec > 0
  /\ Blocks(mask) # {}
  /\ Blocks(mask) \subseteq printed

\* C22: the exit status is 0 only on success.  When an error was reported
\* during the run, a decode error included, main() returns a nonzero status.
C22_ExitZeroOnlyOnSuccess ==
  parser_pc = "done" /\ failed => ret # 0

\* What the parser does with a module whose partial flag is set, in the step
\* that looks at it: without --show-incomplete it returns nonzero before any
\* record is decoded; with it the warning is printed, a non-empty region is
\* decoded and an empty one skipped, and the loop goes on.
PartialHandled ==
  IF "SHOW_INCOMPLETE" \notin mask
    THEN /\ parser_pc' = "done"
         /\ ret' # 0
         /\ nread' = nread
    ELSE /\ "incomplete_warning" \in printed'
         /\ mod_in'.len # 0 => parser_pc' = "records" /\ mod_idx' = mod_idx
         /\ mod_in'.len = 0 =>
              /\ parser_pc' = "module"
              /\ mod_idx' = mod_idx + 1
              /\ nread' = nread

SkippedFirst(m, len, o) ==
  len # 0 /\ (IsDxtModule(m) \/ (~Aggregating(m) /\ "BASE" \notin o))

C24_DxtAlwaysSkipped ==
  [][AtModule /\ IsDxtModule(mod_idx) =>
       /\ parser_pc' = "module"
       /\ mod_idx' = mod_idx + 1
       /\ printed' = {}
       /\ nread' = nread
       /\ failed' = failed]_vars

\* C25 as stated: a run that ends having met empty regions only has printed
\* the sentinel and returns 0, and the sentinel is printed only when every
\* region is empty.
C25_SentinelWhenAllEmpty ==
  /\ parser_pc = "done" /\ ~mod_in.data =>
       "no_module_data" \in printed /\ ret = 0
  /\ "no_module_data" \in printed =>
       ~mod_in.data /\ mod_idx > DARSHAN_MAX_MODS

\* C25 (amended): the same, unless the run ended on a module whose partial
\* flag is set without --show-incomplete.
C25_SentinelUnlessIncomplete ==
  /\ parser_pc = "done" /\ ~mod_in.data /\ mod_outcome # "incomplete_error" =>
       "no_module_data" \in printed /\ ret = 0
  /\ "no_module_data" \in printed =>
       ~mod_in.data /\ mod_idx > DARSHAN_MAX_MODS
\* the module loop ran over empty regions only and the sentinel was printed
C25_Witness ==
  /\ parser_pc = "done"
  /\ empty_mods = DARSHAN_MAX_MODS
  /\ "no_module_data" \in printed
  /\ ret = 0

\* C26: a POSIX, MPI-IO or STDIO module that yields no record contributes
\* nothing: the blocks the options ask for are printed for it, with a zero
\* file tally and zero performance values.
C26_ZeroRecordsZeroBlocks ==
  parser_pc = "reset" /\ mod_in.nrec = 0 =>
    /\ Blocks(mask) \subseteq printed
    /\ "FILE" \in mask => fdata = ZeroFileData
    /\ "PERF" \in mask => pdata = ZeroPerfData(job_nprocs)

\* ------------------------------------------------- finalize properties
\* calc_perf has run for the current module
PerfCalculated == parser_pc = "reset" /\ "PERF" \in mask

\* C28: calc_perf reports as slowest rank the lowest index whose
\* rank_cumul_io_total_time is maximal, with that rank's io_total, md_only
\* and rw_only times; the lower index wins a tie, and when every per-rank
\* time is zero it reports rank 0 with zero times.
C28_SlowestIsLowestMaximal ==
  PerfCalculated =>
    LET v == pdata.rank_cumul_io_total_time
        r == pdata.slowest_rank_rank
    IN /\ r \in 0..(job_nprocs - 1)
       /\ \A i \in 0..(job_nprocs - 1) : v[i] <= v[r]
       /\ \A i \in 0..(r - 1) : v[i] < v[r]
       /\ pdata.slowest_rank_io_total_time = v[r]
       /\ IF v[r] = 0
            THEN /\ r = 0
                 /\ pdata.slowest_rank_meta_only_time = 0
                 /\ pdata.slowest_rank_rw_only_time = 0
            ELSE /\ pdata.slowest_rank_meta_only_time =
                      pdata.rank_cumul_md_only_time[r]
                 /\ pdata.slowest_rank_rw_only_time =
                      pdata.rank_cumul_rw_only_time[r]
\* two ranks tie on a nonzero time and rank 0 is reported
C28_Witness ==
  /\ PerfCalculated
  /\ job_nprocs = 2
  /\ pdata.rank_cumul_io_total_time[0] = pdata.rank_cumul_io_total_time[1]
  /\ pdata.rank_cumul_io_total_time[0] > 0
  /\ pdata.slowest_rank_rank = 0

\* C29: after calc_perf, agg_time_by_slowest is slowest_rank_io_total_time +
\* shared_io_total_time_by_slowest in every case; agg_perf_by_slowest is
\* total_bytes divided by that sum only when the sum is nonzero, and stays 0
\* otherwise: no division by zero.
C29_GuardedDivision ==
  PerfCalculated =>
    LET time == pdata.slowest_rank_io_total_time
                  + pdata.shared_io_total_time_by_slowest
    IN /\ pdata.agg_time_by_slowest = time
       /\ pdata.agg_perf_by_slowest.den # 0
       /\ time # 0 =>
            pdata.agg_perf_by_slowest = Quotient(pdata.total_bytes, time)
       /\ time = 0 => pdata.agg_perf_by_slowest = Quotient(0, 1)
\* bytes were moved but both times are zero: the division is not performed
C29_Witness ==
  /\ PerfCalculated
  /\ pdata.total_bytes > 0
  /\ pdata.agg_time_by_slowest = 0
  /\ pdata.agg_perf_by_slowest = Quotient(0, 1)

\* the six buckets of file_data_t: the fields of the count, the size and the
\* largest size
FileBuckets ==
  { [count |-> "total", size |-> "total_size", most |-> "total_max"],
    [count |-> "read_only", size |-> "read_only_size",
     most |-> "read_only_max"],
    [count |-> "write_only", size |-> "write_only_size",
     most |-> "write_only_max"],
    [count |-> "read_write", size |-> "read_write_size",
     most |-> "read_write_max"],
    [count |-> "unique", size |-> "unique_size", most |-> "unique_max"],
    [count |-> "shared", size |-> "shared_size", most |-> "shared_max"] }

\* bytes_read + bytes_written of the aggregated record of a hash entry
FileBytes(e) == e.rec_dat.BYTES_READ + e.rec_dat.BYTES_WRITTEN

\* the hash entry e belongs in the bucket named b
InBucket(b, e) ==
  LET r == e.rec_dat.READS
      w == e.rec_dat.WRITES
  IN CASE b = "total" -> TRUE
       [] b = "read_only" -> r # 0 /\ w = 0
       [] b = "write_only" -> r = 0 /\ w # 0
       [] b = "read_write" -> r # 0 /\ w # 0
       [] b = "unique" -> FILETYPE_UNIQUE \in e.type
       [] b = "shared" -> FILETYPE_SHARED \in e.type
                            \/ FILETYPE_PARTSHARED \in e.type

\* the ids of the hash entries that belong in the bucket named b
BucketIds(b) == { id \in DOMAIN file_hash_table : InBucket(b, file_hash_table[id]) }

\* the sum and the maximum of the sizes of the files whose ids are in ids
RECURSIVE SumBytes(_)
SumBytes(ids) ==
  IF ids = {}
    THEN 0
    ELSE LET id == CHOOSE x \in ids : TRUE
         IN FileBytes(file_hash_table[id]) + SumBytes(ids \ {id})
MaxBytes(ids) ==
  IF ids = {}
    THEN 0
    ELSE LET sizes == { FileBytes(file_hash_table[id]) : id \in ids }
         IN CHOOSE m \in sizes : \A x \in sizes : x <= m

\* calc_file has run for the current module
FileCalculated == parser_pc = "reset" /\ "FILE" \in mask

Matching(rec_name) ==
  { j \in 1..Len(mnt_data_array) :
      PrefixMatch(mnt_data_array[j].mnt_path, rec_name) }

\* C27: for a record whose path is known, the reported mount and fs_type are
\* those of a mount entry with the longest mount_path that is a prefix of the
\* path, in whatever order the mount table is; when no mount path is a
\* prefix, or the record id has no name record, both are UNKNOWN.
C27_LongestPrefixMatch ==
  lookup_pc = "resolved" =>
    IF lookup_id \in DOMAIN name_hash /\ Matching(name_hash[lookup_id]) # {}
      THEN \E j \in Matching(name_hash[lookup_id]) :
             /\ \A k \in Matching(name_hash[lookup_id]) :
                  Len(mnt_data_array[k].mnt_path)
                    <= Len(mnt_data_array[j].mnt_path)
             /\ mnt_pt = mnt_data_array[j].mnt_path
             /\ fs_type = mnt_data_array[j].mnt_type
      ELSE mnt_pt = UnknownPath /\ fs_type = UnknownType

\* ----------------------------------------------- further fold properties
\* only per-rank records were folded into the accumulator of id, n of them
PerRankOnly(id, n) ==
  /\ Len(FoldedInto(id)) = n
  /\ SharedIn(FoldedInto(id)) = {}

\* C31: a file that received per-rank records only has type {UNIQUE} and
\* procs 1 after one record, and type {PARTSHARED} and procs k after k >= 2
\* records; calc_file then counts it as shared and not as unique.
C31_PerRankOnlyFile ==
  /\ \A id \in FileIds :
       /\ PerRankOnly(id, 1) =>
            /\ id \in DOMAIN file_hash_table
            /\ file_hash_table[id].type = {FILETYPE_UNIQUE}
            /\ file_hash_table[id].procs = 1
       /\ \A k \in 2..MaxRecords :
            PerRankOnly(id, k) =>
              /\ id \in DOMAIN file_hash_table
              /\ file_hash_table[id].type = {FILETYPE_PARTSHARED}
              /\ file_hash_table[id].procs = k
  /\ FileCalculated /\ (\A id \in FileIds : SharedIn(FoldedInto(id)) = {}) =>
       /\ fdata.unique = Cardinality({id \in FileIds : PerRankOnly(id, 1)})
       /\ fdata.shared =
            Cardinality({id \in FileIds :
                           \E k \in 2..MaxRecords : PerRankOnly(id, k)})
\* two per-rank records of one file were folded and tallied: one shared
\* file, no unique one
C31_Witness ==
  /\ FileCalculated
  /\ \E id \in FileIds : PerRankOnly(id, 2)
  /\ fdata.shared = 1
  /\ fdata.unique = 0
  /\ fdata.total = 1

\* C37: total is folded with the same records as the per-file accumulators:
\* total.cumul_io_total_time is the sum of cumul_io_total_time over the hash,
\* and the hash holds one accumulator for each record id seen in the module,
\* and none else. The records of the current module that were folded are the
\* last mod_in.nrec places of folded.
C37_TotalMatchesHash ==
  parser_pc \in {"records", "finalize", "reset"} /\ Aggregating(mod_idx) =>
    /\ total.cumul_io_total_time
         = SumCumul(file_hash_table, DOMAIN file_hash_table)
    /\ DOMAIN file_hash_table
         = { folded[k].id :
               k \in (Len(folded) - mod_in.nrec + 1)..Len(folded) }

\* the three per-rank vectors of pdata at index i
VectorsAt(pd, i) ==
  << pd.rank_cumul_io_total_time[i], pd.rank_cumul_md_only_time[i],
     pd.rank_cumul_rw_only_time[i] >>

\* C38: accum_perf touches only what the record's rank selects: a shared
\* record leaves the per-rank vectors alone, a record of rank r changes index
\* r only and leaves shared_io_total_time_by_slowest alone; hence
\* rank_cumul_io_total_time[r] = rank_cumul_md_only_time[r] +
\* rank_cumul_rw_only_time[r] for every r, always, and after calc_perf
\* slowest_rank_io_total_time = slowest_rank_meta_only_time +
\* slowest_rank_rw_only_time.
C38_PerfFrame ==
  /\ [](\A r \in 0..(job_nprocs - 1) :
          pdata.rank_cumul_io_total_time[r]
            = pdata.rank_cumul_md_only_time[r]
                + pdata.rank_cumul_rw_only_time[r])
  /\ [](PerfCalculated =>
          pdata.slowest_rank_io_total_time
            = pdata.slowest_rank_meta_only_time
                + pdata.slowest_rank_rw_only_time)
  /\ [][Len(folded') = Len(folded) + 1 =>
          LET rank == folded'[Len(folded')].rank
          IN /\ \A i \in 0..(job_nprocs - 1) :
                  i # rank => VectorsAt(pdata', i) = VectorsAt(pdata, i)
             /\ rank # -1 =>
                  pdata'.shared_io_total_time_by_slowest
                    = pdata.shared_io_total_time_by_slowest]_vars

\* C39: calc_file counts every file in exactly one of unique and shared:
\* unique + shared = total and unique_size + shared_size = total_size.
C39_UniqueOrShared ==
  FileCalculated =>
    /\ fdata.unique + fdata.shared = fdata.total
    /\ fdata.unique_size + fdata.shared_size = fdata.total_size

\* C40: *_print_total_file is only ever handed an allocated totals record,
\* also for a module whose region is non-empty and yields zero records.
C40_TotalsInitialized ==
  PrintsTotal => total.rec_dat.allocated

\* ------------------------------------------------- further DXT properties
\* no trace call is in progress and the process is alive
Quiescent == ~fault /\ \A t \in Threads : pc[t] = "idle"

\* the smallest value of the form IO_TRACE_BUF_SIZE * 2^k from c on that is
\* at least n
RECURSIVE CapacityFrom(_, _)
CapacityFrom(c, n) == IF c >= n THEN c ELSE CapacityFrom(2 * c, n)

\* One file has been traced, by writes only, every growth it asked for was
\* granted in full, and no module was shut down.
SingleWrittenFile ==
  /\ Quiescent
  /\ ~instrumentation_disabled
  /\ short = "none"
  /\ Len(heap) = 1
  /\ heap[1].linked
  /\ heap[1].count["read"] = 0
  /\ heap[1].available_buf["read"] = 0

C33_BudgetConserved ==
  Quiescent /\ ~instrumentation_disabled =>
    dxt_mem_remaining + HeldBytes = DXT_IO_TRACE_MEM_MAX
\* records of both modules hold buffers and some budget is left
C33_Witness ==
  /\ Quiescent
  /\ ~instrumentation_disabled
  /\ dxt_mem_remaining > 0
  /\ HeldBytes > 2 * SizeofDxtFileRecord
  /\ \A m \in Modules : \E a \in 1..Len(heap) : heap[a].mod = m

\* C34: with the traces of one file record serialised, every record has
\* write_count <= write_available_buf and read_count <= read_available_buf in
\* every state, and a segment is only stored at an index below the capacity
\* of its buffer.
C34_CountWithinCapacity ==
  /\ [](\A a \in 1..Len(heap), d \in Dirs :
          /\ heap[a].count[d] <= heap[a].available_buf[d]
          /\ Len(heap[a].traces[d]) <= heap[a].available_buf[d])
  /\ [][\A a \in 1..Len(heap), d \in Dirs :
          heap'[a].traces[d] # heap[a].traces[d] /\ ~heap'[a].freed =>
            /\ heap[a].count[d] < heap[a].available_buf[d]
            /\ heap'[a].count[d] = heap[a].count[d] + 1
            /\ Len(heap'[a].traces[d]) = heap'[a].count[d]]_vars
\* a record's write buffer is full and a further write was dropped
C34_Witness ==
  \E a \in 1..Len(heap) :
    /\ heap[a].count["write"] = heap[a].available_buf["write"]
    /\ heap[a].count["write"] > 0
    /\ last = "dropped"

\* C35: a thread holds dxt_runtime_mutex only between the DXT_LOCK and the
\* DXT_UNLOCK of check_*_trace_buf or *_track_new_file_record: every path
\* out of them, the failure returns included, has released it, no thread
\* returns from a trace call holding it, and a thread waiting for it waits
\* for a thread that is on its way to the unlock.
C35_MutexReleased ==
  /\ \A t \in Threads : ~InBudgetSection(t) => mutex_owner # t
  /\ (mutex_owner = NULL) = (mutex_count = 0)
  /\ mutex_count <= 1
  /\ \A t \in Threads :
       Running(t) /\ pc[t] \in {"track_lock", "grow_lock"} /\ ~CanLock(t) =>
         /\ InBudgetSection(mutex_owner)
         /\ ENABLED (\/ TrackCheck(mutex_owner) \/ TrackDebit(mutex_owner)
                     \/ GrowClamp(mutex_owner) \/ GrowDebit(mutex_owner))
\* a creation has just failed on an allocation and unlocked, while the other
\* thread waits for the mutex
C35_Witness ==
  /\ last = "alloc_failed"
  /\ ~fault
  /\ mutex_owner = NULL
  /\ \E t \in Threads : pc[t] \in {"track_lock", "grow_lock"}

\* C36: when several threads issue their first trace call for a module
\* together, the module's runtime is initialised once, and no file record is
\* lost to a replaced runtime pointer: every live record is in the hash of
\* its module's runtime.
C36_InitializedOnce ==
  /\ [](\A a \in 1..Len(heap) :
          ~heap[a].freed =>
            \E i \in 1..Len(dxt_runtime[heap[a].mod].rec_id_hash) :
              dxt_runtime[heap[a].mod].rec_id_hash[i] = a)
  /\ [][\A t \in Threads :
          pc[t] = "runtime_initialize" /\ pc'[t] = "lookup" =>
            ~dxt_runtime[call[t].mod].allocated]_vars

====
